---- MODULE Spec2Model ----
(***************************************************************************)
(* A model of the euchre round rules engine (BaseRound), its tree shaped   *)
(* action log (Log, RawLog) and the logged round (LoggingRound) that keeps *)
(* a cursor into the log.                                                  *)
(***************************************************************************)
EXTENDS Integers, Sequences, FiniteSets, TLC

(***************************************************************************)
(* Bounds of the model.                                                    *)
(***************************************************************************)
\* The log holds at most this many nodes.
MaxLogNodes == 4
\* The number of cards of CardOrder that callers offer as payloads.
MaxCardInputs == 9
\* The number of cards of CardOrder offered while the log is explored.
MaxLogCardInputs == 4

(***************************************************************************)
(* Option<T>: None is the empty sequence, Some(x) the one element sequence.*)
(***************************************************************************)
None == << >>
Some(x) == << x >>
IsSome(o) == o # << >>
Unwrap(o) == o[1]

(***************************************************************************)
(* Seats and teams (seat.rs).                                              *)
(***************************************************************************)
Seat == {"North", "East", "South", "West"}

opposite(seat) ==
    CASE seat = "North" -> "South"
      [] seat = "East" -> "West"
      [] seat = "South" -> "North"
      [] seat = "West" -> "East"

next(seat) ==
    CASE seat = "North" -> "East"
      [] seat = "East" -> "South"
      [] seat = "South" -> "West"
      [] seat = "West" -> "North"

TeamOf(seat) ==
    IF seat \in {"North", "South"} THEN "NorthSouth" ELSE "EastWest"

other(team) ==
    IF team = "NorthSouth" THEN "EastWest" ELSE "NorthSouth"

(***************************************************************************)
(* Suits, ranks and cards (french.rs, card.rs).                            *)
(***************************************************************************)
Suit == {"Club", "Diamond", "Spade", "Heart"}
Rank == {"Nine", "Ten", "Jack", "Queen", "King", "Ace"}

color(suit) == IF suit \in {"Diamond", "Heart"} THEN "Red" ELSE "Black"

Card(rank, suit) == [rank |-> rank, suit |-> suit]

is_trump(card, trump) ==
    \/ card.suit = trump
    \/ (card.rank = "Jack" /\ color(card.suit) = color(trump))

effective_suit(card, trump) ==
    IF is_trump(card, trump) THEN trump ELSE card.suit

is_following(card, trump, lead) ==
    effective_suit(card, trump) = effective_suit(lead, trump)

\* A variant that ranks both bowers alike.
value_bowers_alike(card, trump, lead) ==
    IF is_trump(card, trump)
    THEN CASE card.rank = "Nine" -> 7
           [] card.rank = "Ten" -> 8
           [] card.rank = "Queen" -> 9
           [] card.rank = "King" -> 10
           [] card.rank = "Ace" -> 11
           [] card.rank = "Jack" -> 13
    ELSE IF card.suit = lead.suit /\ ~is_trump(lead, trump)
    THEN CASE card.rank = "Nine" -> 1
           [] card.rank = "Ten" -> 2
           [] card.rank = "Jack" -> 3
           [] card.rank = "Queen" -> 4
           [] card.rank = "King" -> 5
           [] card.rank = "Ace" -> 6
    ELSE 0

value(card, trump, lead) ==
    IF is_trump(card, trump)
    THEN CASE card.rank = "Nine" -> 7
           [] card.rank = "Ten" -> 8
           [] card.rank = "Queen" -> 9
           [] card.rank = "King" -> 10
           [] card.rank = "Ace" -> 11
           [] card.rank = "Jack" -> IF card.suit = trump THEN 13 ELSE 12
    ELSE IF card.suit = lead.suit /\ ~is_trump(lead, trump)
    THEN CASE card.rank = "Nine" -> 1
           [] card.rank = "Ten" -> 2
           [] card.rank = "Jack" -> 3
           [] card.rank = "Queen" -> 4
           [] card.rank = "King" -> 5
           [] card.rank = "Ace" -> 6
    ELSE 0

(***************************************************************************)
(* Sequence helpers standing for Vec operations.                           *)
(***************************************************************************)
\* Iterator::position: the 1-based index of the first element equal to x,
\* or 0 when there is none.
Position(s, x) ==
    IF \E i \in 1..Len(s) : s[i] = x
    THEN CHOOSE i \in 1..Len(s) : s[i] = x /\ \A j \in 1..(i - 1) : s[j] # x
    ELSE 0

\* Vec::remove(index), with a 1-based index.
RemoveAt(s, i) == SubSeq(s, 1, i - 1) \o SubSeq(s, i + 1, Len(s))

Range(s) == {s[i] : i \in 1..Len(s)}

(***************************************************************************)
(* Trick (trick.rs).  cards is the Vec of (seat, card) plays; best is the  *)
(* 0-based index of the best play.                                         *)
(***************************************************************************)
Trick_new(trump, leader, card) ==
    [trump |-> trump,
     cards |-> << <<leader, card>> >>,
     best |-> 0,
     best_value |-> value(card, trump, card)]

Trick_len(trick) == Len(trick.cards)

Trick_lead(trick) == trick.cards[1]

\* A variant that takes the lead of the trick for its best play.
Trick_best_is_lead(trick) == trick.cards[1]

Trick_best(trick) == trick.cards[trick.best + 1]

\* A variant that compares the printed suits, so that the left bower counts
\* as a card of its printed suit.
is_following_lead_by_printed_suit(trick, hand, card) ==
    LET lead_card == Trick_lead(trick)[2]
    IN  \/ card.suit = lead_card.suit
        \/ ~(\E i \in 1..Len(hand) : hand[i].suit = lead_card.suit)

\* A variant that takes a card of the suit led and no other, whatever the
\* hand holds.
is_following_lead_strict(trick, hand, card) ==
    is_following(card, trick.trump, Trick_lead(trick)[2])

is_following_lead(trick, hand, card) ==
    LET lead_card == Trick_lead(trick)[2]
    IN  \/ is_following(card, trick.trump, lead_card)
        \/ ~(\E i \in 1..Len(hand) : is_following(hand[i], trick.trump, lead_card))

\* A variant that keeps only the cards that follow, even when there are none.
Trick_filter_following_only(trick, hand) ==
    SelectSeq(hand, LAMBDA c : is_following(c, trick.trump, Trick_lead(trick)[2]))

\* Trick::filter: the playable cards of the hand, in the order of the hand.
Trick_filter(trick, hand) ==
    LET following ==
            SelectSeq(hand, LAMBDA c : is_following(c, trick.trump, Trick_lead(trick)[2]))
    IN  IF following = << >> THEN hand ELSE following

\* A variant in which a later play of equal value takes over as the best.
Trick_play_later_on_ties(trick, seat, card) ==
    LET card_value == value(card, trick.trump, Trick_lead(trick)[2])
        improved == card_value >= trick.best_value
    IN  [trump |-> trick.trump,
         cards |-> Append(trick.cards, <<seat, card>>),
         best |-> IF improved THEN Len(trick.cards) ELSE trick.best,
         best_value |-> IF improved THEN card_value ELSE trick.best_value]

Trick_play(trick, seat, card) ==
    LET card_value == value(card, trick.trump, Trick_lead(trick)[2])
        improved == card_value > trick.best_value
    IN  [trump |-> trick.trump,
         cards |-> Append(trick.cards, <<seat, card>>),
         best |-> IF improved THEN Len(trick.cards) ELSE trick.best,
         best_value |-> IF improved THEN card_value ELSE trick.best_value]

(***************************************************************************)
(* Tricks (round/tricks.rs).                                               *)
(***************************************************************************)
Tricks_default == [tricks |-> << >>, trick_size |-> 4]

\* A variant that counts the trick in progress for its best play so far.
win_count_counts_pending(tricks, team) ==
    Cardinality({i \in 1..Len(tricks.tricks) :
        TeamOf(Trick_best(tricks.tricks[i])[1]) = team})

win_count(tricks, team) ==
    Cardinality({i \in 1..Len(tricks.tricks) :
        /\ Trick_len(tricks.tricks[i]) = tricks.trick_size
        /\ TeamOf(Trick_best(tricks.tricks[i])[1]) = team})

(***************************************************************************)
(* Results of the fallible operations (error.rs).                          *)
(***************************************************************************)
Ok == [err |-> "Ok"]
RoundOver == [err |-> "RoundOver"]
ExpectActioned(seat, action) ==
    [err |-> "ExpectActioned", seat |-> seat, action |-> action]
InvalidActionData == [err |-> "InvalidActionData"]
InvalidLogId(id) == [err |-> "InvalidLogId", id |-> id]
DealerMustBidOther == [err |-> "DealerMustBidOther"]
MustCallTopSuit(suit) == [err |-> "MustCallTopSuit", suit |-> suit]
CannotCallTopSuit(suit) == [err |-> "CannotCallTopSuit", suit |-> suit]
CardNotHeld(seat, card) == [err |-> "CardNotHeld", seat |-> seat, card |-> card]
MustFollowLead(seat, card) ==
    [err |-> "MustFollowLead", seat |-> seat, card |-> card]
\* A failed assert!/expect aborts the call.
Panic(what) == [err |-> "Panic", what |-> what]

IsOk(res) == res.err = "Ok"

(***************************************************************************)
(* Actions (action.rs).                                                    *)
(***************************************************************************)
ActionType == {"BidTop", "BidOther", "DealerDiscard", "Lead", "Follow"}

Pass == [type |-> "Pass"]
Call(suit, alone) == [type |-> "Call", suit |-> suit, alone |-> alone]
CardData(card) == [type |-> "Card", card |-> card]

ExpectAction(seat, action) == [seat |-> seat, action |-> action]

Action(seat, action, data) == [seat |-> seat, action |-> action, data |-> data]

(***************************************************************************)
(* BaseRound (round/base.rs).  A round is the record of the struct's       *)
(* fields; every handler returns the round it leaves behind and its        *)
(* Result.                                                                 *)
(***************************************************************************)
Ret(round, res) == [round |-> round, res |-> res]

BaseRound_from(config) ==
    [dealer |-> config.dealer,
     top |-> config.top,
     hands |-> config.hands,
     contract |-> None,
     tricks |-> Tricks_default,
     events |-> << [type |-> "Deal", dealer |-> config.dealer, top |-> config.top] >>,
     next_action |-> Some(ExpectAction(next(config.dealer), "BidTop"))]

\* A variant that never settles the round.
outcome_never(round) == None

\* A variant that looks for a euchre only once all five tricks are played.
outcome_after_five(round) ==
    IF round.contract = None THEN None
    ELSE LET contract == Unwrap(round.contract)
             makers == TeamOf(contract.maker)
             defenders == other(makers)
             makers_count == win_count(round.tricks, makers)
             defenders_count == win_count(round.tricks, defenders)
         IN  IF makers_count + defenders_count = 5
             THEN IF defenders_count >= 3
                  THEN Some([team |-> defenders, points |-> 2])
                  ELSE IF makers_count = 5 /\ contract.alone
                  THEN Some([team |-> makers, points |-> 4])
                  ELSE IF makers_count = 5
                  THEN Some([team |-> makers, points |-> 2])
                  ELSE Some([team |-> makers, points |-> 1])
             ELSE None

\* A variant that scores a sweep as 2 points whether alone or not.
outcome_ignores_alone(round) ==
    IF round.contract = None THEN None
    ELSE LET contract == Unwrap(round.contract)
             makers == TeamOf(contract.maker)
             defenders == other(makers)
             makers_count == win_count(round.tricks, makers)
             defenders_count == win_count(round.tricks, defenders)
         IN  IF defenders_count >= 3
             THEN Some([team |-> defenders, points |-> 2])
             ELSE IF makers_count + defenders_count = 5
             THEN IF makers_count = 5
                  THEN Some([team |-> makers, points |-> 2])
                  ELSE Some([team |-> makers, points |-> 1])
             ELSE None

\* Round::outcome, the default method of the trait (round.rs).
outcome(round) ==
    IF round.contract = None THEN None
    ELSE LET contract == Unwrap(round.contract)
             makers == TeamOf(contract.maker)
             defenders == other(makers)
             makers_count == win_count(round.tricks, makers)
             defenders_count == win_count(round.tricks, defenders)
         IN  IF defenders_count >= 3
             THEN Some([team |-> defenders, points |-> 2])
             ELSE IF makers_count + defenders_count = 5
             THEN IF makers_count = 5 /\ contract.alone
                  THEN Some([team |-> makers, points |-> 4])
                  ELSE IF makers_count = 5
                  THEN Some([team |-> makers, points |-> 2])
                  ELSE Some([team |-> makers, points |-> 1])
             ELSE None

filter_seat(contract, seat) ==
    IF contract.alone /\ seat = opposite(contract.maker)
    THEN next(seat)
    ELSE seat

next_trick(round, seat) ==
    [round EXCEPT !.next_action = Some(ExpectAction(seat, "Lead"))]

\* A variant that lets the seat after the dealer lead whoever it is.
first_trick_unfiltered(round) ==
    LET contract == Unwrap(round.contract)
        sized == IF contract.alone
                 THEN [round EXCEPT !.tricks.trick_size = 3]
                 ELSE round
    IN  next_trick(sized, next(round.dealer))

first_trick(round) ==
    LET contract == Unwrap(round.contract)
        sized == IF contract.alone
                 THEN [round EXCEPT !.tricks.trick_size = 3]
                 ELSE round
    IN  next_trick(sized, filter_seat(contract, next(round.dealer)))

\* The 1-based index of the card in the seat's hand, 0 for CardNotHeld.
find_card(round, seat, card) == Position(round.hands[seat], card)

\* A variant that leaves the card in the hand.
discard_keeps_card(round, seat, index) == round

discard(round, seat, index) ==
    [round EXCEPT !.hands[seat] = RemoveAt(@, index)]

find_and_discard(round, seat, card) ==
    LET index == find_card(round, seat, card)
    IN  IF index = 0
        THEN Ret(round, CardNotHeld(seat, card))
        ELSE Ret(discard(round, seat, index), Ok)

\* A variant in which the pass of the dealer sends the top card round again.
pass_top_goes_round(round, seat) ==
    Ret([round EXCEPT !.next_action = Some(ExpectAction(next(seat), "BidTop"))], Ok)

pass_top(round, seat) ==
    IF seat = round.dealer
    THEN Ret([round EXCEPT !.next_action = Some(ExpectAction(next(seat), "BidOther"))], Ok)
    ELSE Ret([round EXCEPT !.next_action = Some(ExpectAction(next(seat), "BidTop"))], Ok)

\* A variant that records the contract before it looks at the suit.
bid_top_contract_first(round, maker, suit, alone) ==
    LET contract == [maker |-> maker, suit |-> suit, alone |-> alone]
        set == [round EXCEPT !.contract = Some(contract)]
    IN  IF suit = round.top.suit
        THEN LET picked == [set EXCEPT !.hands[round.dealer] = Append(@, round.top)]
                 moved == IF alone /\ maker # round.dealer
                          THEN first_trick(picked)
                          ELSE [picked EXCEPT !.next_action =
                                   Some(ExpectAction(round.dealer, "DealerDiscard"))]
             IN  Ret([moved EXCEPT !.events =
                         Append(@, [type |-> "Call", contract |-> contract])], Ok)
        ELSE Ret(set, MustCallTopSuit(round.top.suit))

\* A variant that asks the dealer to discard after every call of the top suit.
bid_top_always_discards(round, maker, suit, alone) ==
    IF suit = round.top.suit
    THEN LET contract == [maker |-> maker, suit |-> suit, alone |-> alone]
             picked == [round EXCEPT !.contract = Some(contract),
                                     !.hands[round.dealer] = Append(@, round.top)]
             moved == [picked EXCEPT !.next_action =
                          Some(ExpectAction(round.dealer, "DealerDiscard"))]
         IN  Ret([moved EXCEPT !.events =
                     Append(@, [type |-> "Call", contract |-> contract])], Ok)
    ELSE Ret(round, MustCallTopSuit(round.top.suit))

bid_top(round, maker, suit, alone) ==
    IF suit = round.top.suit
    THEN LET contract == [maker |-> maker, suit |-> suit, alone |-> alone]
             picked == [round EXCEPT !.contract = Some(contract),
                                     !.hands[round.dealer] = Append(@, round.top)]
             moved == IF alone /\ maker # round.dealer
                      THEN first_trick(picked)
                      ELSE [picked EXCEPT !.next_action =
                               Some(ExpectAction(round.dealer, "DealerDiscard"))]
         IN  Ret([moved EXCEPT !.events =
                     Append(@, [type |-> "Call", contract |-> contract])], Ok)
    ELSE Ret(round, MustCallTopSuit(round.top.suit))

\* A variant that lets the dealer pass like any other seat.
pass_other_dealer_may_pass(round, seat) ==
    Ret([round EXCEPT !.next_action = Some(ExpectAction(next(seat), "BidOther"))], Ok)

pass_other(round, seat) ==
    IF seat = round.dealer
    THEN Ret(round, DealerMustBidOther)
    ELSE Ret([round EXCEPT !.next_action = Some(ExpectAction(next(seat), "BidOther"))], Ok)

\* A variant that takes a call of any suit.
bid_other_accepts_top_suit(round, maker, suit, alone) ==
    LET contract == [maker |-> maker, suit |-> suit, alone |-> alone]
        opened == first_trick([round EXCEPT !.contract = Some(contract)])
    IN  Ret([opened EXCEPT !.events =
                Append(@, [type |-> "Call", contract |-> contract])], Ok)

\* A variant that records the contract before it looks at the suit.
bid_other_contract_first(round, maker, suit, alone) ==
    LET contract == [maker |-> maker, suit |-> suit, alone |-> alone]
        set == [round EXCEPT !.contract = Some(contract)]
    IN  IF suit = round.top.suit
        THEN Ret(set, CannotCallTopSuit(round.top.suit))
        ELSE Ret([first_trick(set) EXCEPT !.events =
                     Append(@, [type |-> "Call", contract |-> contract])], Ok)

bid_other(round, maker, suit, alone) ==
    IF suit = round.top.suit
    THEN Ret(round, CannotCallTopSuit(round.top.suit))
    ELSE LET contract == [maker |-> maker, suit |-> suit, alone |-> alone]
             opened == first_trick([round EXCEPT !.contract = Some(contract)])
         IN  Ret([opened EXCEPT !.events =
                     Append(@, [type |-> "Call", contract |-> contract])], Ok)

\* A variant that discards the card picked up last, whichever card is named.
dealer_discard_buries_top(round, dealer, card) ==
    IF dealer # round.dealer
    THEN Ret(round, Panic("assert_eq dealer"))
    ELSE IF find_card(round, dealer, card) = 0
         THEN Ret(round, CardNotHeld(dealer, card))
         ELSE Ret(first_trick(discard(round, dealer, Len(round.hands[dealer]))), Ok)

dealer_discard(round, dealer, card) ==
    IF dealer # round.dealer
    THEN Ret(round, Panic("assert_eq dealer"))
    ELSE LET found == find_and_discard(round, dealer, card)
         IN  IF IsOk(found.res)
             THEN Ret(first_trick(found.round), Ok)
             ELSE found

lead(round, seat, card) ==
    IF round.contract = None
    THEN Ret(round, Panic("contract must be set"))
    ELSE LET contract == Unwrap(round.contract)
             found == find_and_discard(round, seat, card)
         IN  IF ~IsOk(found.res)
             THEN found
             ELSE IF Len(round.tricks.tricks) >= 5
             THEN Ret(found.round, Panic("assert tricks.len() < 5"))
             ELSE Ret([found.round EXCEPT
                         !.tricks.tricks = Append(@, Trick_new(contract.suit, seat, card)),
                         !.next_action = Some(ExpectAction(
                             filter_seat(contract, next(seat)), "Follow"))], Ok)

\* A variant that plays all five tricks whatever the outcome is already.
follow_plays_on(round, seat, card) ==
    IF round.contract = None
    THEN Ret(round, Panic("contract must be set"))
    ELSE
    LET contract == Unwrap(round.contract)
        index == find_card(round, seat, card)
        trick_size == round.tricks.trick_size
        n == Len(round.tricks.tricks)
    IN  IF index = 0
        THEN Ret(round, CardNotHeld(seat, card))
        ELSE IF n = 0
        THEN Ret(round, Panic("trick must be started"))
        ELSE IF ~(Trick_len(round.tricks.tricks[n]) < trick_size)
        THEN Ret(round, Panic("assert trick.len() < trick_size"))
        ELSE
        LET trick == round.tricks.tricks[n]
            hand == round.hands[seat]
        IN  IF ~is_following_lead(trick, hand, card)
            THEN Ret(round, MustFollowLead(seat, Trick_lead(trick)[2]))
            ELSE
            LET played == Trick_play(trick, seat, card)
                r1 == [round EXCEPT !.tricks.tricks[n] = played,
                                    !.hands[seat] = RemoveAt(@, index)]
            IN  IF Trick_len(played) < trick_size
                THEN Ret([r1 EXCEPT !.next_action = Some(ExpectAction(
                             filter_seat(contract, next(seat)), "Follow"))], Ok)
                ELSE
                LET winner == Trick_best(played)[1]
                    r2 == [r1 EXCEPT !.events =
                              Append(@, [type |-> "Trick", trick |-> played])]
                    out == outcome(r2)
                IN  IF IsSome(out) /\ Len(round.tricks.tricks) = 5
                    THEN Ret([r2 EXCEPT
                                 !.events = Append(@, [type |-> "Round",
                                                       outcome |-> Unwrap(out)]),
                                 !.next_action = None], Ok)
                    ELSE Ret(next_trick(r2, winner), Ok)
follow(round, seat, card) ==
    IF round.contract = None
    THEN Ret(round, Panic("contract must be set"))
    ELSE
    LET contract == Unwrap(round.contract)
        index == find_card(round, seat, card)
        trick_size == round.tricks.trick_size
        n == Len(round.tricks.tricks)
    IN  IF index = 0
        THEN Ret(round, CardNotHeld(seat, card))
        ELSE IF n = 0
        THEN Ret(round, Panic("trick must be started"))
        ELSE IF ~(Trick_len(round.tricks.tricks[n]) < trick_size)
        THEN Ret(round, Panic("assert trick.len() < trick_size"))
        ELSE
        LET trick == round.tricks.tricks[n]
            hand == round.hands[seat]
        IN  IF ~is_following_lead(trick, hand, card)
            THEN Ret(round, MustFollowLead(seat, Trick_lead(trick)[2]))
            ELSE
            LET played == Trick_play(trick, seat, card)
                r1 == [round EXCEPT !.tricks.tricks[n] = played,
                                    !.hands[seat] = RemoveAt(@, index)]
            IN  IF Trick_len(played) < trick_size
                THEN Ret([r1 EXCEPT !.next_action = Some(ExpectAction(
                             filter_seat(contract, next(seat)), "Follow"))], Ok)
                ELSE
                LET winner == Trick_best(played)[1]
                    r2 == [r1 EXCEPT !.events =
                              Append(@, [type |-> "Trick", trick |-> played])]
                    out == outcome(r2)
                IN  IF IsSome(out)
                    THEN Ret([r2 EXCEPT
                                 !.events = Append(@, [type |-> "Round",
                                                       outcome |-> Unwrap(out)]),
                                 !.next_action = None], Ok)
                    ELSE Ret(next_trick(r2, winner), Ok)

apply(round, a) ==
    CASE a.action = "BidTop" /\ a.data.type = "Pass" ->
             pass_top(round, a.seat)
      [] a.action = "BidTop" /\ a.data.type = "Call" ->
             bid_top(round, a.seat, a.data.suit, a.data.alone)
      [] a.action = "BidOther" /\ a.data.type = "Pass" ->
             pass_other(round, a.seat)
      [] a.action = "BidOther" /\ a.data.type = "Call" ->
             bid_other(round, a.seat, a.data.suit, a.data.alone)
      [] a.action = "DealerDiscard" /\ a.data.type = "Card" ->
             dealer_discard(round, a.seat, a.data.card)
      [] a.action = "Lead" /\ a.data.type = "Card" ->
             lead(round, a.seat, a.data.card)
      [] a.action = "Follow" /\ a.data.type = "Card" ->
             follow(round, a.seat, a.data.card)
      [] OTHER -> Ret(round, InvalidActionData)

\* A variant that compares the seat and not the kind of the action.
apply_action_seat_only(round, a) ==
    IF round.next_action = None
    THEN Ret(round, RoundOver)
    ELSE LET expect == Unwrap(round.next_action)
         IN  IF expect.seat # a.seat
             THEN Ret(round, ExpectActioned(expect.seat, expect.action))
             ELSE apply(round, a)

\* A variant that checks the expected kind only, not the seat.
apply_action_kind_only(round, a) ==
    IF round.next_action = None
    THEN Ret(round, RoundOver)
    ELSE LET expect == Unwrap(round.next_action)
         IN  IF expect.action # a.action
             THEN Ret(round, ExpectActioned(expect.seat, expect.action))
             ELSE apply(round, a)

apply_action(round, a) ==
    IF round.next_action = None
    THEN Ret(round, RoundOver)
    ELSE LET expect == Unwrap(round.next_action)
         IN  IF expect.seat # a.seat \/ expect.action # a.action
             THEN Ret(round, ExpectActioned(expect.seat, expect.action))
             ELSE apply(round, a)

\* A variant that takes the newest event of the queue.
pop_event_newest_first(round) ==
    IF round.events = << >>
    THEN [round |-> round, event |-> None]
    ELSE [round |-> [round EXCEPT !.events = SubSeq(@, 1, Len(@) - 1)],
          event |-> Some(round.events[Len(round.events)])]

pop_event(round) ==
    IF round.events = << >>
    THEN [round |-> round, event |-> None]
    ELSE [round |-> [round EXCEPT !.events = Tail(@)],
          event |-> Some(Head(round.events))]

(***************************************************************************)
(* Log and RawLog (round/log.rs).  actions is the HashMap from id to node, *)
(* children the HashMap from Option<Id> to the Vec of child ids.           *)
(***************************************************************************)
ActionNode(id, parent, action) == [id |-> id, parent |-> parent, action |-> action]

Log_new(config) ==
    [config |-> config, actions |-> << >>, children |-> << >>, next_id |-> 0]

\* The set of nodes ordered by ascending id (sorted_unstable_by_key).
RECURSIVE SortedById(_)
SortedById(nodes) ==
    IF nodes = {} THEN << >>
    ELSE LET least == CHOOSE n \in nodes : \A m \in nodes : n.id <= m.id
         IN  << least >> \o SortedById(nodes \ {least})

\* The conversion that loses the node with the largest id.
RawLog_from_truncated(log) ==
    LET nodes == SortedById({log.actions[id] : id \in DOMAIN log.actions})
    IN  [config |-> log.config,
         actions |-> SubSeq(nodes, 1, Len(nodes) - 1)]

\* From<&Log> for RawLog.
RawLog_from(log) ==
    [config |-> log.config,
     actions |-> SortedById({log.actions[id] : id \in DOMAIN log.actions})]

\* The loop of From<RawLog> for Log over the remaining nodes.
RECURSIVE Log_from_loop(_, _)
Log_from_loop(nodes, acc) ==
    IF nodes = << >> THEN acc
    ELSE LET action == Head(nodes)
             kids == IF action.parent \in DOMAIN acc.children
                     THEN acc.children[action.parent]
                     ELSE << >>
         IN  Log_from_loop(Tail(nodes),
                 [max_id |-> IF action.id > acc.max_id THEN action.id ELSE acc.max_id,
                  children |-> (action.parent :> Append(kids, action.id)) @@ acc.children,
                  actions |-> (action.id :> action) @@ acc.actions])

\* From<RawLog> for Log.
\* A variant that resumes at the largest loaded id instead of past it.
Log_from_resumes_at_max(raw) ==
    LET acc == Log_from_loop(raw.actions,
                   [max_id |-> 0, children |-> << >>, actions |-> << >>])
    IN  [config |-> raw.config,
         actions |-> acc.actions,
         children |-> acc.children,
         next_id |-> acc.max_id]

Log_from(raw) ==
    LET acc == Log_from_loop(raw.actions,
                   [max_id |-> 0, children |-> << >>, actions |-> << >>])
    IN  [config |-> raw.config,
         actions |-> acc.actions,
         children |-> acc.children,
         next_id |-> acc.max_id + 1]

\* find_child that never finds the child: every insert adds a node.
find_child_never(log, parent, action) == None

\* find_child that compares the seat and the kind of the action only.
find_child_ignores_data(log, parent, action) ==
    IF parent \notin DOMAIN log.children THEN None
    ELSE LET ids == log.children[parent]
             hits == {i \in 1..Len(ids) :
                        /\ log.actions[ids[i]].action.seat = action.seat
                        /\ log.actions[ids[i]].action.action = action.action}
         IN  IF hits = {} THEN None
             ELSE Some(ids[CHOOSE i \in hits : \A j \in hits : i <= j])

find_child(log, parent, action) ==
    IF parent \notin DOMAIN log.children THEN None
    ELSE LET ids == log.children[parent]
             hits == {i \in 1..Len(ids) : log.actions[ids[i]].action = action}
         IN  IF hits = {} THEN None
             ELSE Some(ids[CHOOSE i \in hits : \A j \in hits : i <= j])

\* Log::insert returns the id; the log it leaves behind comes with it.
\* A variant that gives a new node the id of the newest node, which it
\* replaces.
insert_reuses_id(log, parent, action) ==
    LET found == find_child(log, parent, action)
    IN  IF IsSome(found)
        THEN [log |-> log, id |-> Unwrap(found), res |-> Ok]
        ELSE LET id == IF log.next_id > 0 THEN log.next_id - 1 ELSE 0
                 kids == IF parent \in DOMAIN log.children
                         THEN log.children[parent]
                         ELSE << >>
             IN  [log |-> [log EXCEPT
                              !.next_id = id + 1,
                              !.actions = (id :> ActionNode(id, parent, action)) @@ @,
                              !.children = (parent :> Append(kids, id)) @@ @],
                  id |-> id, res |-> Ok]

insert(log, parent, action) ==
    LET found == find_child(log, parent, action)
    IN  IF IsSome(found)
        THEN [log |-> log, id |-> Unwrap(found), res |-> Ok]
        ELSE LET id == log.next_id
                 kids == IF parent \in DOMAIN log.children
                         THEN log.children[parent]
                         ELSE << >>
             IN  IF id \in DOMAIN log.actions
                 THEN [log |-> [log EXCEPT !.next_id = id + 1,
                                           !.actions[id] = ActionNode(id, parent, action)],
                       id |-> id, res |-> Panic("assert prev.is_none()")]
                 ELSE [log |-> [log EXCEPT
                                   !.next_id = id + 1,
                                   !.actions = (id :> ActionNode(id, parent, action)) @@ @,
                                   !.children = (parent :> Append(kids, id)) @@ @],
                       id |-> id, res |-> Ok]

\* The while loop of Log::backtrace.
RECURSIVE backtrace_loop(_, _, _)
backtrace_loop(log, parent, trace) ==
    IF parent = None THEN [res |-> Ok, trace |-> trace]
    ELSE LET id == Unwrap(parent)
         IN  IF id \notin DOMAIN log.actions
             THEN [res |-> InvalidLogId(id), trace |-> << >>]
             ELSE LET action == log.actions[id]
                  IN  backtrace_loop(log, action.parent,
                          << <<action.id, action.action>> >> \o trace)

\* backtrace that pushes every node at the end of the trace: leaf first.
backtrace_leaf_first(log, id) ==
    LET bt == backtrace_loop(log, Some(id), << >>)
    IN  [res |-> bt.res,
         trace |-> [i \in 1..Len(bt.trace) |-> bt.trace[Len(bt.trace) + 1 - i]]]

backtrace(log, id) == backtrace_loop(log, Some(id), << >>)

(***************************************************************************)
(* LoggingRound (round/logging.rs): the record of round, log and cursor.   *)
(***************************************************************************)
LRet(self, res) == [self |-> self, res |-> res]

LoggingRound_from(config) ==
    [round |-> BaseRound_from(config), log |-> Log_new(config), cursor |-> None]

\* From<Log> for LoggingRound
LoggingRound_from_log(l) ==
    [round |-> BaseRound_from(l.config), log |-> l, cursor |-> None]

\* apply_action that inserts into the log before it looks at the result of
\* the round.
LoggingRound_apply_action_logs_first(self, action) ==
    LET applied == apply_action(self.round, action)
        ins == insert(self.log, self.cursor, action)
        s1 == [self EXCEPT !.round = applied.round, !.log = ins.log]
    IN  IF ~IsOk(applied.res)
        THEN LRet(s1, applied.res)
        ELSE LRet([s1 EXCEPT !.cursor = Some(ins.id)], Ok)

\* apply_action that moves the cursor only when insert added a node.
LoggingRound_apply_action_new_only(self, action) ==
    LET applied == apply_action(self.round, action)
        s1 == [self EXCEPT !.round = applied.round]
    IN  IF ~IsOk(applied.res)
        THEN LRet(s1, applied.res)
        ELSE LET ins == insert(s1.log, s1.cursor, action)
             IN  IF ins.id = s1.log.next_id
                 THEN LRet([s1 EXCEPT !.log = ins.log, !.cursor = Some(ins.id)], Ok)
                 ELSE LRet([s1 EXCEPT !.log = ins.log], Ok)

LoggingRound_apply_action(self, action) ==
    LET applied == apply_action(self.round, action)
        s1 == [self EXCEPT !.round = applied.round]
    IN  IF ~IsOk(applied.res)
        THEN LRet(s1, applied.res)
        ELSE LET ins == insert(s1.log, s1.cursor, action)
             IN  IF ~IsOk(ins.res)
                 THEN LRet([s1 EXCEPT !.log = ins.log], ins.res)
                 ELSE LRet([s1 EXCEPT !.log = ins.log, !.cursor = Some(ins.id)], Ok)

\* A variant that leaves the cursor where it stands.
restart_keeps_cursor(self) ==
    [self EXCEPT !.round = BaseRound_from(self.log.config)]

restart(self) ==
    [self EXCEPT !.cursor = None, !.round = BaseRound_from(self.log.config)]

\* The for loop of LoggingRound::seek over the remaining backtrace.
RECURSIVE seek_loop(_, _)
seek_loop(self, trace) ==
    IF trace = << >> THEN LRet(self, Ok)
    ELSE LET applied == apply_action(self.round, Head(trace)[2])
             s1 == [self EXCEPT !.round = applied.round]
         IN  IF ~IsOk(applied.res)
             THEN LRet(s1, applied.res)
             ELSE seek_loop([s1 EXCEPT !.cursor = Some(Head(trace)[1])], Tail(trace))

\* seek that replays without restarting the round first.
seek_without_restart(self, id) ==
    LET s0 == [self EXCEPT !.cursor = None]
    IN  IF id = None THEN LRet(s0, Ok)
        ELSE LET bt == backtrace(s0.log, Unwrap(id))
             IN  IF ~IsOk(bt.res)
                 THEN LRet(s0, bt.res)
                 ELSE seek_loop(s0, bt.trace)

\* A variant that looks the id up before it restarts the round.
seek_checks_first(self, id) ==
    IF id = None THEN LRet(restart(self), Ok)
    ELSE LET bt == backtrace(self.log, Unwrap(id))
         IN  IF ~IsOk(bt.res)
             THEN LRet(self, bt.res)
             ELSE seek_loop(restart(self), bt.trace)

seek(self, id) ==
    LET s0 == restart(self)
    IN  IF id = None THEN LRet(s0, Ok)
        ELSE LET bt == backtrace(s0.log, Unwrap(id))
             IN  IF ~IsOk(bt.res)
                 THEN LRet(s0, bt.res)
                 ELSE seek_loop(s0, bt.trace)

(***************************************************************************)
(* The inputs of the model: the deals a round starts from and the actions  *)
(* and log ids callers pass in.                                            *)
(***************************************************************************)
\* The hands of config_fixture (round/log/test.rs), in the canonical order
\* that RoundConfig::canonicalize leaves them in.
FixtureHands ==
    [North |-> << Card("Ace", "Diamond"), Card("Queen", "Spade"),
                  Card("Nine", "Heart"), Card("Ten", "Heart"), Card("Jack", "Heart") >>,
     East  |-> << Card("Jack", "Club"), Card("King", "Diamond"),
                  Card("King", "Spade"), Card("Queen", "Heart"), Card("King", "Heart") >>,
     South |-> << Card("Queen", "Club"), Card("King", "Club"), Card("Ace", "Club"),
                  Card("Ten", "Diamond"), Card("Queen", "Diamond") >>,
     West  |-> << Card("Ten", "Club"), Card("Nine", "Spade"), Card("Ten", "Spade"),
                  Card("Jack", "Spade"), Card("Ace", "Heart") >>]

FixtureTop == Card("Jack", "Diamond")

DealerInputs == {"North"}

ConfigInputs ==
    {[dealer |-> d, hands |-> FixtureHands, top |-> FixtureTop] : d \in DealerInputs}

\* The cards callers offer, in the order in which a larger bound adds them.
CardOrder ==
    << Card("King", "Diamond"), Card("Queen", "Diamond"), Card("Jack", "Diamond"),
       Card("King", "Spade"), Card("Queen", "Club"), Card("Jack", "Heart"),
       Card("Jack", "Club"), Card("Ten", "Diamond"), Card("Ace", "Diamond"),
       Card("Nine", "Club"), Card("Ten", "Club"), Card("Queen", "Spade") >>

CardInputs ==
    {CardOrder[i] : i \in 1..(IF MaxCardInputs < Len(CardOrder)
                               THEN MaxCardInputs ELSE Len(CardOrder))}

\* The payloads a player hands back from take_action.
DataInputs ==
    {Pass} \cup {Call(s, al) : s \in Suit, al \in BOOLEAN}
           \cup {CardData(c) : c \in CardInputs}

\* The payloads offered while the log is explored: fewer, to leave room for
\* the branches of the log.
LogSuitInputs == {"Diamond", "Club"}

LogCardInputs ==
    {CardOrder[i] : i \in 1..(IF MaxLogCardInputs < Len(CardOrder)
                               THEN MaxLogCardInputs ELSE Len(CardOrder))}

LogDataInputs ==
    {Pass} \cup {Call(s, al) : s \in LogSuitInputs, al \in BOOLEAN}
           \cup {CardData(c) : c \in LogCardInputs}

\* Actions built without looking at next_action: every kind, from two seats,
\* with a payload of each shape.
StraySeatInputs == {"East", "South"}

StrayDataInputs == {Pass, Call("Club", FALSE), CardData(CardOrder[1])}

StrayInputs ==
    {Action(seat, type, data) :
        seat \in StraySeatInputs, type \in ActionType, data \in StrayDataInputs}

\* Ids 0..MaxLogNodes - 1 can exist in the bounded log; MaxLogNodes never does.
SeekInputs == {None} \cup {Some(id) : id \in 0..MaxLogNodes}

(***************************************************************************)
(* The state: the fields of the LoggingRound and the outcome of the last   *)
(* call made on it.                                                        *)
(***************************************************************************)
VARIABLES round, log, cursor, result

vars == <<round, log, cursor, result>>

Self == [round |-> round, log |-> log, cursor |-> cursor]

Becomes(self) ==
    /\ round' = self.round
    /\ log' = self.log
    /\ cursor' = self.cursor

\* LoggingRound::from(config) for a dealt config.
Init ==
    \E config \in ConfigInputs :
        /\ round = BaseRound_from(config)
        /\ log = Log_new(config)
        /\ cursor = None
        /\ result = [op |-> "from", res |-> Ok]

\* ExpectAction::with_data
with_data(expect, data) == Action(expect.seat, expect.action, data)

\* The call round.apply_action(action) on the logged round.
Applied(action) ==
    LET ret == LoggingRound_apply_action(Self, action)
    IN  /\ Becomes(ret.self)
        /\ result' = [op |-> "apply_action", action |-> action, res |-> ret.res]

\* The bounded log has room for the node that the action may need.
LogHasRoom(action) ==
    find_child(log, cursor, action) = None => log.next_id < MaxLogNodes

\* The driver step of cli_main and the TUI: the payload the player chose is
\* bound to next_action and applied.
TakeAction(data) ==
    /\ IsSome(round.next_action)
    /\ LogHasRoom(with_data(Unwrap(round.next_action), data))
    /\ Applied(with_data(Unwrap(round.next_action), data))

Restart ==
    /\ Becomes(restart(Self))
    /\ result' = [op |-> "restart", res |-> Ok]

Seek(id) ==
    LET ret == seek(Self, id)
    IN  /\ Becomes(ret.self)
        /\ result' = [op |-> "seek", id |-> id, res |-> ret.res]

PopEvent ==
    LET ret == pop_event(round)
    IN  /\ round' = ret.round
        /\ UNCHANGED <<log, cursor>>
        /\ result' = [op |-> "pop_event", event |-> ret.event, res |-> Ok]

\* The round is saved (Tui::try_save_round: RawLog::from(round)) and loaded
\* again (Tui::from_round_file: the RawLog is turned into a Log and that into
\* a LoggingRound).
Reload ==
    /\ Becomes(LoggingRound_from_log(Log_from(RawLog_from(log))))
    /\ result' = [op |-> "load", res |-> Ok]

Next ==
    \/ \E data \in LogDataInputs : TakeAction(data)
    \/ Restart
    \/ \E id \in SeekInputs : Seek(id)
    \/ PopEvent
    \/ Reload

\* The logged round under every call of its interface, with a bounded log.
Spec == Init /\ [][Next]_vars

(***************************************************************************)
(* A round played through without rewinding: the log is the single path of *)
(* the accepted actions, so it needs no bound.                             *)
(***************************************************************************)
\* The driver step of TakeAction, with no bound on the log.
PlayTakeAction(data) ==
    /\ IsSome(round.next_action)
    /\ Applied(with_data(Unwrap(round.next_action), data))

\* A caller applies an action of its own making.
ApplyAction(action) == Applied(action)

PlayPopEvent == PopEvent

NextPlay ==
    \/ \E data \in DataInputs : PlayTakeAction(data)
    \/ \E action \in StrayInputs : ApplyAction(action)
    \/ PlayPopEvent

SpecPlay == Init /\ [][NextPlay]_vars

(***************************************************************************)
(* A round played at the table of the TUI: the events are drained before   *)
(* the seat that is expected acts, a bid is one of the choices the bidding *)
(* menu offers, and a card is one selected in the hand of the seat.        *)
(***************************************************************************)
\* The seats that deal at the table.
TableDealerInputs == {"North", "South"}

\* LoggingRound::from(config) for the deal of the fixture and either dealer.
InitTable ==
    \E dealer \in TableDealerInputs :
        LET config == [dealer |-> dealer, hands |-> FixtureHands, top |-> FixtureTop]
        IN  /\ round = BaseRound_from(config)
            /\ log = Log_new(config)
            /\ cursor = None
            /\ result = [op |-> "from", res |-> Ok]

\* The suits the bidding menu of the second phase is asked for.
TableSuitInputs == {"Diamond", "Club", "Spade"}

\* The cards the hand widget selects here: the selection rests on the first
\* or on the last card of the hand.
HandInputs(hand) ==
    {CardData(hand[i]) : i \in {1, Len(hand)} \cap DOMAIN hand}

\* The payloads the table can hand back for the expected action.
TableDataInputs(r, expect) ==
    CASE expect.action = "BidTop" ->
             {Pass} \cup {Call(r.top.suit, al) : al \in BOOLEAN}
      [] expect.action = "BidOther" ->
             {Pass} \cup {Call(s, al) : s \in TableSuitInputs, al \in BOOLEAN}
      [] OTHER -> HandInputs(r.hands[expect.seat])

\* Tui::game_step shows one queued event.
TableDrain ==
    /\ round.events # << >>
    /\ PopEvent

\* With no event left to show, the expected seat acts (Tui::apply_action).
TableAct ==
    /\ round.events = << >>
    /\ IsSome(round.next_action)
    /\ \E data \in TableDataInputs(round, Unwrap(round.next_action)) :
           Applied(with_data(Unwrap(round.next_action), data))

NextTable ==
    \/ TableDrain
    \/ TableAct

SpecTable == InitTable /\ [][NextTable]_vars

(***************************************************************************)
(* Vocabulary of the properties.                                           *)
(***************************************************************************)
\* What a caller can observe of a round apart from its event queue.
Observed(r) ==
    [hands |-> r.hands, contract |-> r.contract,
     tricks |-> r.tricks, next_action |-> r.next_action]

\* The actions applied one after the other to a logged round, up to the
\* first rejection.
RECURSIVE ApplyAll(_, _)
ApplyAll(self, actions) ==
    IF actions = << >> THEN LRet(self, Ok)
    ELSE LET ret == LoggingRound_apply_action(self, Head(actions))
         IN  IF IsOk(ret.res) THEN ApplyAll(ret.self, Tail(actions)) ELSE ret

\* The same on a bare round.
RECURSIVE ReplayAll(_, _)
ReplayAll(r, actions) ==
    IF actions = << >> THEN Ret(r, Ok)
    ELSE LET ret == apply_action(r, Head(actions))
         IN  IF IsOk(ret.res) THEN ReplayAll(ret.round, Tail(actions)) ELSE ret

Ids == DOMAIN log.actions

ActionsOf(trace) == [i \in 1..Len(trace) |-> trace[i][2]]

\* The children of a parent, the empty list when it has none.
ChildrenOf(l, parent) ==
    IF parent \in DOMAIN l.children THEN l.children[parent] ELSE << >>

\* The number of nodes from the root down to the node, following parents.
RECURSIVE Depth(_, _)
Depth(l, parent) ==
    IF parent = None \/ Unwrap(parent) \notin DOMAIN l.actions THEN 0
    ELSE 1 + Depth(l, l.actions[Unwrap(parent)].parent)

HasBranch == \E key \in DOMAIN log.children : Len(log.children[key]) >= 2

(***************************************************************************)
(* C1. Seek/replay equivalence: for every path a1..an of the log that a    *)
(* fresh logged round accepts and every k <= n, seeking to the node of ak  *)
(* and applying ak+1..an leaves the same hands, contract, tricks and       *)
(* next action as applying a1..an to a fresh logged round.                 *)
(***************************************************************************)
C1_SeekReplayEquivalence ==
    \A id \in Ids :
        LET trace == backtrace(log, id).trace
            all == ActionsOf(trace)
            direct == ApplyAll(LoggingRound_from(log.config), all)
        IN  IsOk(direct.res) =>
                \A k \in 1..Len(trace) :
                    LET sought == seek(Self, Some(trace[k][1]))
                        rest == ApplyAll(sought.self, SubSeq(all, k + 1, Len(all)))
                    IN  /\ IsOk(sought.res)
                        /\ IsOk(rest.res)
                        /\ Observed(rest.self.round) = Observed(direct.self.round)

\* A seek has just moved the round to an inner node: one with a parent, so
\* that a prefix was replayed, and with a child, so that a suffix remains.
C1_Witness ==
    /\ result.op = "seek"
    /\ IsOk(result.res)
    /\ cursor # None
    /\ log.actions[Unwrap(cursor)].parent # None
    /\ ChildrenOf(log, cursor) # << >>

(***************************************************************************)
(* C2. Cursor lockstep: whatever calls were made, and whether they failed  *)
(* or not, the hands, contract, tricks and next action of the round are    *)
(* those of a fresh round of the log's config to which the actions of      *)
(* backtrace(cursor) were applied in order.                                *)
(***************************************************************************)
C2_CursorLockstep ==
    LET fresh == BaseRound_from(log.config)
    IN  IF cursor = None
        THEN Observed(round) = Observed(fresh)
        ELSE LET bt == backtrace(log, Unwrap(cursor))
                 replayed == ReplayAll(fresh, ActionsOf(bt.trace))
             IN  /\ IsOk(bt.res)
                 /\ IsOk(replayed.res)
                 /\ Observed(round) = Observed(replayed.round)

\* An action was rejected while the cursor stood on a node that is not the
\* newest one, two or more levels down.
C2_Witness ==
    /\ result.op = "apply_action"
    /\ ~IsOk(result.res)
    /\ cursor # None
    /\ Unwrap(cursor) + 1 < log.next_id
    /\ Depth(log, cursor) >= 2

(***************************************************************************)
(* C3. LoggingRound.apply_action records accepted actions only: a rejected *)
(* action leaves the log and the cursor as they were; an accepted one      *)
(* moves the cursor to a node whose parent is the previous cursor and      *)
(* whose action is the applied action.                                     *)
(***************************************************************************)
C3_RecordsOnlyAccepted ==
    [][result'.op = "apply_action" =>
        IF IsOk(result'.res)
        THEN /\ cursor' # None
             /\ Unwrap(cursor') \in DOMAIN log'.actions
             /\ log'.actions[Unwrap(cursor')].parent = cursor
             /\ log'.actions[Unwrap(cursor')].action = result'.action
        ELSE /\ log' = log
             /\ cursor' = cursor]_vars

\* A rule error while the cursor stands on a node below the root.
C3_Witness ==
    /\ result.op = "apply_action"
    /\ result.res.err \in {"MustCallTopSuit", "CardNotHeld", "MustFollowLead"}
    /\ cursor # None
    /\ log.actions[Unwrap(cursor)].parent # None

(***************************************************************************)
(* C4. Log dedup: inserting an action under a parent that already has a    *)
(* child with that action returns that child's id, allocates nothing and   *)
(* leaves the log as it was; inserting any other action allocates the next *)
(* sequential id as a new last child of the parent; no child list ever     *)
(* holds an id twice or two children with the same action.                 *)
(***************************************************************************)
ProbeActions ==
    {log.actions[id].action : id \in Ids}
        \cup {Action("East", "BidTop", Call("Diamond", TRUE)),
              Action("South", "BidTop", Pass)}

NoDuplicateChild(l) ==
    \A key \in DOMAIN l.children :
        \A i, j \in 1..Len(l.children[key]) :
            i # j => /\ l.children[key][i] # l.children[key][j]
                     /\ l.actions[l.children[key][i]].action
                            # l.actions[l.children[key][j]].action

C4_LogDedup ==
    \A parent \in {None} \cup {Some(id) : id \in Ids} :
        \A action \in ProbeActions :
            LET kids == ChildrenOf(log, parent)
                same == {c \in Range(kids) : log.actions[c].action = action}
                ret == insert(log, parent, action)
                again == insert(ret.log, parent, action)
            IN  /\ IF same # {}
                   THEN /\ ret.id \in same
                        /\ ret.log = log
                   ELSE /\ ret.id = log.next_id
                        /\ ret.log.next_id = log.next_id + 1
                        /\ DOMAIN ret.log.actions = Ids \cup {ret.id}
                        /\ ret.log.actions[ret.id] = ActionNode(ret.id, parent, action)
                        /\ ret.log.children[parent] = Append(kids, ret.id)
                /\ again.id = ret.id
                /\ again.log = ret.log
                /\ NoDuplicateChild(ret.log)

\* apply_action was accepted and brought the cursor to a node that was not
\* the newest one: insert found the child instead of adding one.
C4_Witness ==
    /\ result.op = "apply_action"
    /\ IsOk(result.res)
    /\ cursor # None
    /\ Unwrap(cursor) + 1 < log.next_id
    /\ HasBranch

(***************************************************************************)
(* C5. backtrace(id) of an id of the log is the path from a root to id:    *)
(* its first node has no parent, the parent of every later node is the     *)
(* node before it, its last node is id and every entry carries the action  *)
(* of its node; of any other id it is the invalid-log-id error.            *)
(***************************************************************************)
C5_Backtrace ==
    \A id \in 0..(MaxLogNodes + 1) :
        LET bt == backtrace(log, id)
            n == Len(bt.trace)
        IN  IF id \in Ids
            THEN /\ IsOk(bt.res)
                 /\ n >= 1
                 /\ bt.trace[n][1] = id
                 /\ log.actions[bt.trace[1][1]].parent = None
                 /\ \A i \in 2..n :
                        log.actions[bt.trace[i][1]].parent = Some(bt.trace[i - 1][1])
                 /\ \A i \in 1..n :
                        /\ bt.trace[i][1] \in Ids
                        /\ bt.trace[i][2] = log.actions[bt.trace[i][1]].action
            ELSE bt.res = InvalidLogId(id)

\* A seek has walked back from a node three levels down in a log that also
\* has another branch.
C5_Witness ==
    /\ result.op = "seek"
    /\ IsOk(result.res)
    /\ cursor # None
    /\ Depth(log, cursor) >= 3
    /\ HasBranch

(***************************************************************************)
(* C6. Log round trip: a populated log turned into its RawLog and back has *)
(* the same ids, the same parent and action for every id and the same      *)
(* backtrace for every id.                                                 *)
(***************************************************************************)
C6_LogRoundTrip ==
    LET back == Log_from(RawLog_from(log))
    IN  Ids # {} =>
            /\ DOMAIN back.actions = Ids
            /\ \A id \in Ids :
                   /\ back.actions[id].id = id
                   /\ back.actions[id].parent = log.actions[id].parent
                   /\ back.actions[id].action = log.actions[id].action
                   /\ backtrace(back, id) = backtrace(log, id)
            /\ back.config = log.config

\* A log with a branch and a path of length two has just been saved and
\* loaded.
C6_Witness ==
    /\ result.op = "load"
    /\ HasBranch
    /\ \E id \in Ids : Depth(log, Some(id)) >= 2

(***************************************************************************)
(* C7. Replay never fails on a log the logged round built itself:          *)
(* seek(id) succeeds for every id of the log and ends with the cursor on   *)
(* id, since the round accepts the actions of every root-to-node path in   *)
(* order from the initial config.                                          *)
(***************************************************************************)
C7_ReplayNeverFails ==
    \A id \in Ids :
        LET ret == seek(Self, Some(id))
            path == ActionsOf(backtrace(log, id).trace)
        IN  /\ IsOk(ret.res)
            /\ ret.self.cursor = Some(id)
            /\ IsOk(ReplayAll(BaseRound_from(log.config), path).res)

\* A seek went back to a node of an older branch, two or more levels down.
C7_Witness ==
    /\ result.op = "seek"
    /\ IsOk(result.res)
    /\ cursor = result.id
    /\ cursor # None
    /\ Unwrap(cursor) + 1 < log.next_id
    /\ Depth(log, cursor) >= 2


\* A result that apply_action returned as an Err (an abort returns nothing).
IsErr(res) == res.err \notin {"Ok", "Panic"}

\* The last call was round.apply_action.
LastApplied == result.op = "apply_action"

(***************************************************************************)
(* C8.  A rejected action mutates nothing: whenever apply_action returns   *)
(* an error, of any kind, the round (hands, contract, tricks, event queue  *)
(* and next_action) is exactly as it was before the call, so the same seat *)
(* is still the expected actor.                                            *)
(***************************************************************************)
C8_RejectedMutatesNothing ==
    [][(result'.op = "apply_action" /\ IsErr(result'.res))
           => /\ round'.hands = round.hands
              /\ round'.contract = round.contract
              /\ round'.tricks = round.tricks
              /\ round'.events = round.events
              /\ round'.next_action = round.next_action
              /\ round' = round]_vars

\* A bid of the top suit in the second bidding phase was rejected, in a round
\* that has events queued and no contract.
C8_Witness ==
    /\ LastApplied
    /\ result.res = CannotCallTopSuit(round.top.suit)
    /\ result.action.action = "BidOther"
    /\ round.contract = None
    /\ round.next_action = Some(ExpectAction(result.action.seat, "BidOther"))

(***************************************************************************)
(* C9.  Illegal-follow rejection: a Follow by the expected seat with a     *)
(* card it holds is rejected with MustFollowLead exactly when the card's   *)
(* effective suit differs from the effective suit of the lead card and the *)
(* hand holds a card whose effective suit is the lead's; the hands and the *)
(* tricks are then unchanged.  Every other held card is accepted: it       *)
(* leaves the hand and is the last play of the trick.                      *)
(***************************************************************************)
\* The action is a Follow with a held card by the seat that must follow.
IsHeldFollow(r, a) ==
    /\ r.next_action = Some(ExpectAction(a.seat, "Follow"))
    /\ a.action = "Follow"
    /\ a.data.type = "Card"
    /\ a.data.card \in Range(r.hands[a.seat])

\* The lead card of the pending trick.
PendingLead(r) == r.tricks.tricks[Len(r.tricks.tricks)].cards[1][2]

\* The card is of another effective suit than the lead while the hand could
\* have followed.
IsRenege(r, a) ==
    LET trump == Unwrap(r.contract).suit
        led == effective_suit(PendingLead(r), trump)
    IN  /\ effective_suit(a.data.card, trump) # led
        /\ \E c \in Range(r.hands[a.seat]) : effective_suit(c, trump) = led

C9_IllegalFollowRejection ==
    [][(result'.op = "apply_action" /\ IsHeldFollow(round, result'.action))
           => LET a == result'.action
                  n == Len(round.tricks.tricks)
              IN  IF IsRenege(round, a)
                  THEN /\ result'.res = MustFollowLead(a.seat, PendingLead(round))
                       /\ round'.hands = round.hands
                       /\ round'.tricks = round.tricks
                  ELSE /\ IsOk(result'.res)
                       /\ a.data.card \notin Range(round'.hands[a.seat])
                       /\ Len(round'.hands[a.seat]) = Len(round.hands[a.seat]) - 1
                       /\ round'.tricks.tricks[n].cards =
                              Append(round.tricks.tricks[n].cards,
                                     <<a.seat, a.data.card>>)]_vars

\* A held card that does not follow was rejected while the hand still holds a
\* card that follows, and the seat is still to follow.
C9_Witness ==
    /\ LastApplied
    /\ result.res.err = "MustFollowLead"
    /\ IsHeldFollow(round, result.action)
    /\ IsRenege(round, result.action)

(***************************************************************************)
(* C10.  Protocol errors: with next_action empty every apply_action        *)
(* returns RoundOver; otherwise an action whose seat or kind differs from  *)
(* the expected ones returns ExpectActioned with the expected seat and     *)
(* kind; otherwise an action whose payload does not fit its kind (Pass or  *)
(* Call for the bids, Card for DealerDiscard, Lead and Follow) returns     *)
(* InvalidActionData.                                                      *)
(***************************************************************************)
\* The payload has the shape that the kind of action takes.
ShapeFits(a) ==
    IF a.action \in {"BidTop", "BidOther"}
    THEN a.data.type \in {"Pass", "Call"}
    ELSE a.data.type = "Card"

C10_ProtocolErrors ==
    [][result'.op = "apply_action"
           => LET a == result'.action
              IN  IF round.next_action = None
                  THEN result'.res = RoundOver
                  ELSE LET expect == Unwrap(round.next_action)
                       IN  IF a.seat # expect.seat \/ a.action # expect.action
                           THEN result'.res =
                                    ExpectActioned(expect.seat, expect.action)
                           ELSE IF ~ShapeFits(a)
                           THEN result'.res = InvalidActionData
                           ELSE result'.res.err \notin
                                    {"RoundOver", "ExpectActioned",
                                     "InvalidActionData"}]_vars

\* An action was applied to a round that is over and was told so.
C10_Witness ==
    /\ LastApplied
    /\ round.next_action = None
    /\ IsSome(outcome(round))
    /\ result.res = RoundOver


\* The team of the maker and the other team, once the contract is set.
Makers(r) == TeamOf(Unwrap(r.contract).maker)
Defenders(r) == other(Makers(r))

\* The tricks that are complete, whoever won them.
Completed(r) == win_count(r.tricks, "NorthSouth") + win_count(r.tricks, "EastWest")

\* The defenders have three completed tricks.
Euchred(r) == IsSome(r.contract) /\ win_count(r.tricks, Defenders(r)) >= 3

(***************************************************************************)
(* C11.  Early-euchre law: as soon as the defending team has 3 completed   *)
(* tricks the round is over, also with fewer than 5 tricks played:         *)
(* next_action is empty, the outcome is the defending team with 2 points,  *)
(* and the step that completes the third trick of the defenders queues the *)
(* round-finished event with that outcome.                                 *)
(***************************************************************************)
C11_EarlyEuchre ==
    /\ [](Euchred(round)
            => /\ round.next_action = None
               /\ outcome(round) = Some([team |-> Defenders(round), points |-> 2]))
    /\ [][(Euchred(round') /\ ~Euchred(round))
            => /\ round'.events # << >>
               /\ round'.events[Len(round'.events)] =
                      [type |-> "Round",
                       outcome |-> [team |-> Defenders(round'), points |-> 2]]
               /\ round'.next_action = None]_vars

\* The defenders took their third trick before five tricks were played, and
\* the round-finished event is queued.
C11_Witness ==
    /\ Euchred(round)
    /\ Len(round.tricks.tricks) < 5
    /\ round.next_action = None
    /\ \E i \in DOMAIN round.events : round.events[i].type = "Round"


\* The contract is set and is a lone hand.
IsAlone(r) == IsSome(r.contract) /\ Unwrap(r.contract).alone

\* The partner of the maker.
Partner(r) == opposite(Unwrap(r.contract).maker)

\* A card play (Lead or Follow) is expected next.
PlayExpected(r) ==
    IsSome(r.next_action) /\ Unwrap(r.next_action).action \in {"Lead", "Follow"}

\* The tricks that are no longer played into: all but the last, and the last
\* too unless a Follow is expected.
IsCompleteTrick(r, i) ==
    \/ i < Len(r.tricks.tricks)
    \/ ~(IsSome(r.next_action) /\ Unwrap(r.next_action).action = "Follow")

(***************************************************************************)
(* C12.  Lone-hand law (seating): in a round whose contract is alone, the  *)
(* partner of the maker is never the expected seat of a Lead or a Follow   *)
(* and has no play in any trick, and every completed trick has exactly 3   *)
(* plays.                                                                  *)
(***************************************************************************)
C12_LoneHandSeating ==
    IsAlone(round)
        => /\ PlayExpected(round) => Unwrap(round.next_action).seat # Partner(round)
           /\ \A i \in DOMAIN round.tricks.tricks :
                  LET cards == round.tricks.tricks[i].cards
                  IN  /\ \A j \in DOMAIN cards : cards[j][1] # Partner(round)
                      /\ Len(cards) <= 3
                      /\ IsCompleteTrick(round, i) => Len(cards) = 3

\* A lone hand was played to its end by a maker whose partner sits next to
\* the dealer, where the first lead would have been the partner's.
C12_Witness ==
    /\ IsAlone(round)
    /\ Partner(round) = next(round.dealer)
    /\ round.next_action = None
    /\ Len(round.tricks.tricks) = 5


\* The first trick has been opened (no bid and no discard is pending).
TrickPlayBegun(r) ==
    /\ IsSome(r.contract)
    /\ \/ r.next_action = None
       \/ Unwrap(r.next_action).action \in {"Lead", "Follow"}

(***************************************************************************)
(* C13.  Lone-hand scoring, as the claim states it: in a round whose       *)
(* contract is alone the trick total is 3, so the round is over once 3     *)
(* tricks are completed, and a maker who won all 3 of them has the outcome *)
(* of 4 points.                                                            *)
(***************************************************************************)
C13_LoneTotalIsThree ==
    (IsAlone(round) /\ Completed(round) = 3)
        => /\ round.next_action = None
           /\ win_count(round.tricks, Makers(round)) = 3
                  => outcome(round) = Some([team |-> Makers(round), points |-> 4])

(***************************************************************************)
(* C13, amended.  In a round whose contract is alone every trick has 3     *)
(* plays and the trick total is 5 as in any round: once the first trick is *)
(* opened the trick size is 3, the round is over exactly when 5 tricks are *)
(* completed or the defenders have taken 3, and a maker who wins all 5     *)
(* tricks scores 4 points.                                                 *)
(***************************************************************************)
C13_LoneHandScoring ==
    (IsAlone(round) /\ TrickPlayBegun(round))
        => /\ round.tricks.trick_size = 3
           /\ round.next_action = None
                  <=> (Completed(round) = 5 \/ Euchred(round))
           /\ IsSome(outcome(round)) <=> round.next_action = None
           /\ win_count(round.tricks, Makers(round)) = 5
                  => outcome(round) = Some([team |-> Makers(round), points |-> 4])

\* A lone maker has won all five tricks and the round is over.
C13_Witness ==
    /\ IsAlone(round)
    /\ win_count(round.tricks, Makers(round)) = 5
    /\ round.next_action = None


\* The tricks a team has taken: those no longer played into whose best play
\* is of the team.
TricksWon(r, team) ==
    Cardinality({i \in DOMAIN r.tricks.tricks :
        /\ IsCompleteTrick(r, i)
        /\ TeamOf(r.tricks.tricks[i].cards[r.tricks.tricks[i].best + 1][1]) = team})

TricksDone(r) == TricksWon(r, "NorthSouth") + TricksWon(r, "EastWest")

(***************************************************************************)
(* C14.  Outcome rule for a partnered contract: while the defenders have   *)
(* fewer than 3 completed tricks and fewer than 5 tricks are complete the  *)
(* round is not over; once 5 tricks are complete without a euchre the      *)
(* makers win, with 2 points for all 5 tricks and 1 point for 3 or 4.      *)
(* Every outcome, of any contract, has 1, 2 or 4 points.                   *)
(***************************************************************************)
C14_PartneredOutcome ==
    /\ (IsSome(round.contract) /\ ~IsAlone(round))
           => LET m == TricksWon(round, Makers(round))
                  d == TricksWon(round, Defenders(round))
              IN  /\ (d < 3 /\ m + d < 5)
                         => /\ outcome(round) = None
                            /\ IsSome(round.next_action)
                  /\ (d < 3 /\ m + d = 5)
                         => /\ round.next_action = None
                            /\ m \in {3, 4, 5}
                            /\ outcome(round) =
                                   Some([team |-> Makers(round),
                                         points |-> IF m = 5 THEN 2 ELSE 1])
    /\ IsSome(outcome(round)) => Unwrap(outcome(round)).points \in {1, 2, 4}

\* A partnered round went to five tricks and the makers took all of them.
C14_Witness ==
    /\ IsSome(round.contract)
    /\ ~IsAlone(round)
    /\ TricksWon(round, Makers(round)) = 5
    /\ outcome(round) = Some([team |-> Makers(round), points |-> 2])


\* A bid is expected next.
BidExpected(r) ==
    IsSome(r.next_action) /\ Unwrap(r.next_action).action \in {"BidTop", "BidOther"}

\* The step is an apply_action of a Call that was accepted.
AcceptedCall ==
    /\ result'.op = "apply_action"
    /\ IsOk(result'.res)
    /\ result'.action.data.type = "Call"

(***************************************************************************)
(* C15.  The contract is set exactly once per round: it is absent until    *)
(* the first accepted Call, which sets it to the caller, the suit and the  *)
(* alone flag of the Call; after that no apply_action changes it, and no   *)
(* bid is expected again.                                                  *)
(***************************************************************************)
C15_ContractSetOnce ==
    /\ [](round.contract = None <=> BidExpected(round))
    /\ [][/\ round'.contract # round.contract
                => /\ round.contract = None
                   /\ AcceptedCall
          /\ AcceptedCall
                => /\ round.contract = None
                   /\ round'.contract =
                          Some([maker |-> result'.action.seat,
                                suit |-> result'.action.data.suit,
                                alone |-> result'.action.data.alone])]_vars

\* With the contract set, a caller applied another Call and the contract is
\* what it was.
C15_Witness ==
    /\ LastApplied
    /\ result.action.data.type = "Call"
    /\ ~IsOk(result.res)
    /\ IsSome(round.contract)
    /\ Len(round.tricks.tricks) > 0


\* The accepted actions of the round so far, oldest first: the path of the
\* log from the root to the cursor.
Played ==
    IF cursor = None THEN << >>
    ELSE ActionsOf(backtrace(log, Unwrap(cursor)).trace)

\* The seat n places clockwise of a seat.
RECURSIVE Clockwise(_, _)
Clockwise(seat, n) == IF n = 0 THEN seat ELSE Clockwise(next(seat), n - 1)

\* The i-th bid a round can ask for: BidTop clockwise from the seat after the
\* dealer, the dealer fourth, then BidOther the same way.
NthBid(r, i) ==
    ExpectAction(Clockwise(r.dealer, i), IF i <= 4 THEN "BidTop" ELSE "BidOther")

\* The step applies a Pass as the action that is expected.
ExpectedPass ==
    /\ result'.op = "apply_action"
    /\ result'.action.data = Pass
    /\ round.next_action =
           Some(ExpectAction(result'.action.seat, result'.action.action))

(***************************************************************************)
(* C16.  Bidding rotation: a fresh round expects BidTop from the seat      *)
(* after the dealer; a BidTop Pass by a seat other than the dealer moves   *)
(* to BidTop of the next seat and the dealer's BidTop Pass to BidOther of  *)
(* the seat after the dealer; a BidOther Pass by a seat other than the     *)
(* dealer moves to BidOther of the next seat and the dealer's BidOther     *)
(* Pass is rejected with DealerMustBidOther.  Hence the bids of a round    *)
(* are asked clockwise with the dealer last, each seat at most once for    *)
(* BidTop and then at most once for BidOther.                              *)
(***************************************************************************)
C16_BiddingRotation ==
    /\ [](result.op = "from"
            => round.next_action = Some(ExpectAction(next(round.dealer), "BidTop")))
    /\ [][ExpectedPass
            => LET a == result'.action
               IN  CASE a.action = "BidTop" ->
                            /\ IsOk(result'.res)
                            /\ round'.next_action =
                                   IF a.seat = round.dealer
                                   THEN Some(ExpectAction(next(round.dealer), "BidOther"))
                                   ELSE Some(ExpectAction(next(a.seat), "BidTop"))
                     [] a.action = "BidOther" ->
                            IF a.seat = round.dealer
                            THEN /\ result'.res = DealerMustBidOther
                                 /\ round'.next_action = round.next_action
                            ELSE /\ IsOk(result'.res)
                                 /\ round'.next_action =
                                        Some(ExpectAction(next(a.seat), "BidOther"))
                     [] OTHER -> result'.res = InvalidActionData]_vars
    /\ [](LET played == Played
          IN  /\ \A i \in DOMAIN played :
                     played[i].action \in {"BidTop", "BidOther"}
                         => /\ i <= 8
                            /\ ExpectAction(played[i].seat, played[i].action)
                                   = NthBid(round, i)
              /\ BidExpected(round)
                     => /\ Len(played) < 8
                        /\ Unwrap(round.next_action) = NthBid(round, Len(played) + 1))

\* Seven seats have passed and the dealer's Pass of the second phase was
\* rejected: the dealer is still asked to bid.
C16_Witness ==
    /\ LastApplied
    /\ result.res = DealerMustBidOther
    /\ Len(Played) = 7
    /\ round.next_action = Some(ExpectAction(round.dealer, "BidOther"))


\* The seat that leads the first trick: the seat after the dealer, or the
\* one after it when that seat is the partner of a lone maker.
FirstLeader(dealer, maker, alone) ==
    IF alone /\ next(dealer) = opposite(maker)
    THEN next(next(dealer))
    ELSE next(dealer)

\* The step applies the expected action, of the given kind, and it is
\* accepted.
Accepted(kind) ==
    /\ result'.op = "apply_action"
    /\ IsOk(result'.res)
    /\ result'.action.action = kind
    /\ round.next_action = Some(ExpectAction(result'.action.seat, kind))

(***************************************************************************)
(* C17.  An accepted BidTop Call sets the contract to the caller, the suit *)
(* of the top card and the alone flag of the Call, and adds the top card   *)
(* to the hand of the dealer; the next expected action is the Lead of the  *)
(* first trick when the maker goes alone and is not the dealer, and the    *)
(* DealerDiscard of the dealer in every other case.                        *)
(***************************************************************************)
C17_BidTopCall ==
    [][(Accepted("BidTop") /\ result'.action.data.type = "Call")
           => LET a == result'.action
                  dealer == round.dealer
              IN  /\ round'.contract =
                         Some([maker |-> a.seat, suit |-> round.top.suit,
                               alone |-> a.data.alone])
                  /\ round'.hands[dealer] = Append(round.hands[dealer], round.top)
                  /\ \A seat \in Seat \ {dealer} :
                         round'.hands[seat] = round.hands[seat]
                  /\ round'.next_action =
                         IF a.data.alone /\ a.seat # dealer
                         THEN Some(ExpectAction(
                                  FirstLeader(dealer, a.seat, TRUE), "Lead"))
                         ELSE Some(ExpectAction(dealer, "DealerDiscard"))
                  /\ round'.tricks.tricks = << >>]_vars

\* A seat other than the dealer called the top suit alone: the dealer holds
\* six cards and the first Lead is expected.
C17_Witness ==
    /\ LastApplied
    /\ IsOk(result.res)
    /\ result.action.action = "BidTop"
    /\ result.action.data = Call(round.top.suit, TRUE)
    /\ result.action.seat # round.dealer
    /\ Len(round.hands[round.dealer]) = 6
    /\ IsSome(round.next_action)
    /\ Unwrap(round.next_action).action = "Lead"


\* The step applies the expected action, of the given kind.
AppliedExpected(kind) ==
    /\ result'.op = "apply_action"
    /\ result'.action.action = kind
    /\ round.next_action = Some(ExpectAction(result'.action.seat, kind))

(***************************************************************************)
(* C18.  Call suit constraints: a BidTop Call is accepted only if its suit *)
(* is the suit of the top card and is otherwise rejected with              *)
(* MustCallTopSuit; a BidOther Call is accepted only if its suit is not    *)
(* the suit of the top card and is otherwise rejected with                 *)
(* CannotCallTopSuit; an accepted BidOther Call sets the contract and      *)
(* opens the first trick with no dealer discard and no change to any hand. *)
(***************************************************************************)
C18_CallSuitConstraints ==
    [][/\ (AppliedExpected("BidTop") /\ result'.action.data.type = "Call")
              => IF result'.action.data.suit = round.top.suit
                 THEN IsOk(result'.res)
                 ELSE /\ result'.res = MustCallTopSuit(round.top.suit)
                      /\ round'.contract = None
       /\ (AppliedExpected("BidOther") /\ result'.action.data.type = "Call")
              => LET a == result'.action
                 IN  IF a.data.suit = round.top.suit
                     THEN /\ result'.res = CannotCallTopSuit(round.top.suit)
                          /\ round'.contract = None
                     ELSE /\ IsOk(result'.res)
                          /\ round'.contract =
                                 Some([maker |-> a.seat, suit |-> a.data.suit,
                                       alone |-> a.data.alone])
                          /\ round'.hands = round.hands
                          /\ round'.tricks.tricks = << >>
                          /\ round'.tricks.trick_size =
                                 IF a.data.alone THEN 3 ELSE 4
                          /\ round'.next_action =
                                 Some(ExpectAction(
                                     FirstLeader(round.dealer, a.seat, a.data.alone),
                                     "Lead"))]_vars

\* A suit other than the top card's was called in the second phase: the
\* contract is set, every seat holds its five cards and a Lead is expected.
C18_Witness ==
    /\ LastApplied
    /\ IsOk(result.res)
    /\ result.action.action = "BidOther"
    /\ result.action.data.type = "Call"
    /\ result.action.data.suit # round.top.suit
    /\ IsSome(round.contract)
    /\ \A seat \in Seat : Len(round.hands[seat]) = 5
    /\ Unwrap(round.next_action).action = "Lead"


(***************************************************************************)
(* C19.  DealerDiscard and first lead: a DealerDiscard is rejected with    *)
(* CardNotHeld unless the hand of the dealer, the picked-up top card       *)
(* included, holds the card; on success exactly that card leaves the hand, *)
(* which is left with 5 cards, and the next expected action is the Lead of *)
(* the seat after the dealer, or of the seat after that one when the seat  *)
(* after the dealer is the partner of a lone maker.                        *)
(***************************************************************************)
C19_DealerDiscard ==
    [][AppliedExpected("DealerDiscard") /\ result'.action.data.type = "Card"
           => LET a == result'.action
                  dealer == round.dealer
                  hand == round.hands[dealer]
                  contract == Unwrap(round.contract)
              IN  /\ a.seat = dealer
                  /\ round.top \in Range(hand)
                  /\ Len(hand) = 6
                  /\ IF a.data.card \notin Range(hand)
                     THEN /\ result'.res = CardNotHeld(dealer, a.data.card)
                          /\ round'.hands = round.hands
                          /\ round'.next_action = round.next_action
                     ELSE /\ IsOk(result'.res)
                          /\ Len(round'.hands[dealer]) = 5
                          /\ Range(round'.hands[dealer]) = Range(hand) \ {a.data.card}
                          /\ \A seat \in Seat \ {dealer} :
                                 round'.hands[seat] = round.hands[seat]
                          /\ round'.next_action =
                                 Some(ExpectAction(
                                     FirstLeader(dealer, contract.maker, contract.alone),
                                     "Lead"))]_vars

\* The dealer discarded a card it was dealt and keeps the top card among
\* its five cards; the first Lead is expected.
C19_Witness ==
    /\ LastApplied
    /\ IsOk(result.res)
    /\ result.action.action = "DealerDiscard"
    /\ result.action.data.card # round.top
    /\ Len(round.hands[round.dealer]) = 5
    /\ round.top \in Range(round.hands[round.dealer])
    /\ Unwrap(round.next_action).action = "Lead"


\* The seat that plays after a seat: the next one clockwise, or the one
\* after it when the next one is the partner of a lone maker.
SeatAfter(r, seat) ==
    IF IsAlone(r) /\ next(seat) = Partner(r) THEN next(next(seat)) ELSE next(seat)

\* The number of seats that play into each trick of the round.
Participants(r) == IF IsAlone(r) THEN 3 ELSE 4

\* The seat whose play has the highest value of the trick.
BestSeat(trick) ==
    LET lead_card == trick.cards[1][2]
        v(j) == value(trick.cards[j][2], trick.trump, lead_card)
        j == CHOOSE j \in DOMAIN trick.cards :
                 \A k \in DOMAIN trick.cards : v(k) < v(j) \/ k = j
    IN  trick.cards[j][1]

\* The trick being played, or the one played last.
LastTrick(r) == r.tricks.tricks[Len(r.tricks.tricks)]

(***************************************************************************)
(* C20.  Trick play order: after an accepted Lead by a seat the Follow     *)
(* actions are expected clockwise from that seat, skipping the partner of  *)
(* a lone maker, so that each participating seat plays exactly once per    *)
(* trick; when the trick is full and the round is not over, the next       *)
(* expected action is the Lead of the seat that played the best card of    *)
(* the trick.                                                              *)
(***************************************************************************)
C20_TrickPlayOrder ==
    /\ [][/\ Accepted("Lead")
                => /\ LastTrick(round').cards =
                          << <<result'.action.seat, result'.action.data.card>> >>
                   /\ Len(round'.tricks.tricks) = Len(round.tricks.tricks) + 1
                   /\ round'.next_action =
                          Some(ExpectAction(SeatAfter(round, result'.action.seat),
                                            "Follow"))
          /\ Accepted("Follow")
                => LET seat == result'.action.seat
                       trick == LastTrick(round')
                   IN  /\ Len(round'.tricks.tricks) = Len(round.tricks.tricks)
                       /\ trick.cards = Append(LastTrick(round).cards,
                                               <<seat, result'.action.data.card>>)
                       /\ round'.next_action =
                              IF Len(trick.cards) < Participants(round)
                              THEN Some(ExpectAction(SeatAfter(round, seat), "Follow"))
                              ELSE IF IsSome(outcome(round'))
                              THEN None
                              ELSE Some(ExpectAction(BestSeat(trick), "Lead"))]_vars
    /\ [](\A i \in DOMAIN round.tricks.tricks :
              LET cards == round.tricks.tricks[i].cards
              IN  /\ \A j, k \in DOMAIN cards : cards[j][1] = cards[k][1] => j = k
                  /\ \A j \in DOMAIN cards :
                         j > 1 => cards[j][1] = SeatAfter(round, cards[j - 1][1])
                  /\ IsCompleteTrick(round, i) => Len(cards) = Participants(round))

\* A full trick of four plays was taken by a seat that did not lead it, and
\* that seat is asked to lead the next trick.
C20_Witness ==
    /\ LastApplied
    /\ IsOk(result.res)
    /\ result.action.action = "Follow"
    /\ Len(round.tricks.tricks) \in 1..4
    /\ Len(LastTrick(round).cards) = 4
    /\ BestSeat(LastTrick(round)) # LastTrick(round).cards[1][1]
    /\ round.next_action = Some(ExpectAction(BestSeat(LastTrick(round)), "Lead"))

(***************************************************************************)
(* The trick and the card on their own, as the unit tests of trick.rs      *)
(* drive them: a trick is made of a lead and grows by plays of any cards,  *)
(* a hand is filtered against it, and a card is valued against any trump   *)
(* and lead.  The round, the log and the cursor take no part.              *)
(***************************************************************************)
\* The longest hand that is filtered.
MaxHandLen == 2

\* Tricks::default: a trick holds at most four plays.
TrickSize == 4

\* Deck::default: every rank of every suit.
AllCards == {Card(rank, suit) : rank \in Rank, suit \in Suit}

\* The cards played onto the lead: plays of test_trick_best, the right bower
\* of Hearts among them.
TrickCardInputs ==
    {Card("Ten", "Spade"), Card("Jack", "Heart"), Card("Queen", "Spade")}

TrickLeaderInputs == {"North"}

\* The cards of the hands that are filtered.
TrickHandCards ==
    {Card("Jack", "Diamond"), Card("Queen", "Spade"), Card("Nine", "Club"),
     Card("Ten", "Heart")}

\* The hands: every sequence of the cards up to the bound, the empty one too.
TrickHandInputs == UNION {[1..n -> TrickHandCards] : n \in 0..MaxHandLen}

\* Trick::new(trump, leader, card)
InitTrick ==
    \E trump \in Suit, leader \in TrickLeaderInputs, card \in AllCards :
        /\ round = BaseRound_from([dealer |-> "North", hands |-> FixtureHands,
                                   top |-> FixtureTop])
        /\ log = Log_new([dealer |-> "North", hands |-> FixtureHands,
                          top |-> FixtureTop])
        /\ cursor = None
        /\ result = [op |-> "Trick::new", trick |-> Trick_new(trump, leader, card)]

HasTrick == "trick" \in DOMAIN result

\* The last call made or grew the trick: the trick is the one at hand.  A
\* query on it, filter or value, is answered and not built upon.
AtTrick == result.op \in {"Trick::new", "Trick::play"}

\* trick.play(seat, card), the seat being the next one around the table.
TrickPlay(card) ==
    /\ AtTrick
    /\ Trick_len(result.trick) < TrickSize
    /\ LET trick == result.trick
           seat == next(trick.cards[Len(trick.cards)][1])
       IN  result' = [op |-> "Trick::play", trick |-> Trick_play(trick, seat, card)]
    /\ UNCHANGED <<round, log, cursor>>

\* trick.filter(hand)
TrickFilter(hand) ==
    /\ AtTrick
    /\ result' = [op |-> "Trick::filter", trick |-> result.trick, hand |-> hand,
                  res |-> Trick_filter(result.trick, hand)]
    /\ UNCHANGED <<round, log, cursor>>

\* card.value(trump, lead) against the trump and the lead of the trick.
CardValue(card) ==
    /\ AtTrick
    /\ result' = [op |-> "Card::value", card |-> card, trump |-> result.trick.trump,
                  lead |-> Trick_lead(result.trick)[2],
                  res |-> value(card, result.trick.trump, Trick_lead(result.trick)[2])]
    /\ UNCHANGED <<round, log, cursor>>

NextTrick ==
    \/ \E card \in TrickCardInputs : TrickPlay(card)
    \/ \E hand \in TrickHandInputs : TrickFilter(hand)
    \/ \E card \in AllCards : CardValue(card)

SpecTrick == InitTrick /\ [][NextTrick]_vars

\* The values of the plays of a trick, scanned again from the lead on.
PlayValues(trick) ==
    [i \in 1..Len(trick.cards) |->
        value(trick.cards[i][2], trick.trump, trick.cards[1][2])]

\* The greatest of a non-empty sequence of numbers.
MaxOf(vals) == CHOOSE m \in Range(vals) : \A v \in Range(vals) : v <= m

\* The first place at which the sequence holds the number.
FirstAt(vals, m) == CHOOSE i \in 1..Len(vals) :
                        vals[i] = m /\ \A j \in 1..(i - 1) : vals[j] # m

\* C21: after Trick::new and any number of plays, best() is the play whose
\* value is the greatest of the trick, the earliest one when several plays
\* share it, and best_value is that greatest value.
C21_BestIsRescan ==
    HasTrick =>
        LET trick == result.trick
            vals == PlayValues(trick)
        IN  /\ trick.best_value = MaxOf(vals)
            /\ trick.best + 1 = FirstAt(vals, MaxOf(vals))
            /\ Trick_best(trick) = trick.cards[FirstAt(vals, MaxOf(vals))]

\* C21 happens: with Hearts trump, North 9S, East TS, South JH and West QS
\* have been played and South holds the trick.
C21_Witness ==
    /\ result.op = "Trick::play"
    /\ result.trick.trump = "Heart"
    /\ result.trick.cards =
           << <<"North", Card("Nine", "Spade")>>, <<"East", Card("Ten", "Spade")>>,
              <<"South", Card("Jack", "Heart")>>, <<"West", Card("Queen", "Spade")>> >>
    /\ Trick_best(result.trick)[1] = "South"

\* The values of the trump suit below the bowers, and of the suit that was
\* led, by rank.
TrumpRankValue == [Nine |-> 7, Ten |-> 8, Queen |-> 9, King |-> 10, Ace |-> 11]

PlainRankValue ==
    [Nine |-> 1, Ten |-> 2, Jack |-> 3, Queen |-> 4, King |-> 5, Ace |-> 6]

RightBower(trump) == Card("Jack", trump)

LeftBower(trump) ==
    Card("Jack", CHOOSE s \in Suit : s # trump /\ color(s) = color(trump))

InTrump(card, trump) == card.suit = trump \/ card = LeftBower(trump)

\* The ranking of the cards as the rules of the game give it.
Ranking(card, trump, lead_card) ==
    IF card = RightBower(trump) THEN 13
    ELSE IF card = LeftBower(trump) THEN 12
    ELSE IF card.suit = trump THEN TrumpRankValue[card.rank]
    ELSE IF card.suit = lead_card.suit /\ ~InTrump(lead_card, trump)
         THEN PlainRankValue[card.rank]
    ELSE 0

\* C22: for every trump and lead, value() gives the trump cards 7 to 11 by
\* rank, the left bower 12 and the right bower 13, the other cards of the
\* suit led 1 to 6 by rank when the lead is not trump, and every other card
\* 0; so no two distinct cards share a value other than 0 and the right
\* bower outranks every other card.
C22_CardRanking ==
    result.op = "Card::value" =>
        LET trump == result.trump
            lead_card == result.lead
        IN  /\ result.res = Ranking(result.card, trump, lead_card)
            /\ \A c1, c2 \in AllCards :
                   /\ value(c1, trump, lead_card) = value(c2, trump, lead_card)
                   /\ value(c1, trump, lead_card) # 0
                   => c1 = c2
            /\ \A c \in AllCards \ {RightBower(trump)} :
                   value(c, trump, lead_card) < value(RightBower(trump), trump, lead_card)

\* C22 happens: with Hearts trump the Jack of Diamonds has been valued 12
\* against a lead of spades.
C22_Witness ==
    /\ result.op = "Card::value"
    /\ result.trump = "Heart"
    /\ result.lead.suit = "Spade"
    /\ result.card = Card("Jack", "Diamond")
    /\ result.res = 12

\* The cards of the hand that are of the effective suit of the lead.
SuitMatches(trick, hand) ==
    {c \in Range(hand) :
        effective_suit(c, trick.trump)
            = effective_suit(Trick_lead(trick)[2], trick.trump)}

\* C23: for every trick and every hand that is not empty, filter(hand) is
\* not empty, holds the cards of the hand of the effective suit of the lead
\* when there is one and the whole hand otherwise, and a card of the hand
\* satisfies is_following_lead exactly when filter(hand) holds it.
C23_FilterAgreesWithLegality ==
    (result.op = "Trick::filter" /\ result.hand # << >>) =>
        LET trick == result.trick
            hand == result.hand
        IN  /\ result.res # << >>
            /\ Range(result.res) = IF SuitMatches(trick, hand) # {}
                                   THEN SuitMatches(trick, hand)
                                   ELSE Range(hand)
            /\ \A c \in Range(hand) :
                   is_following_lead(trick, hand, c) <=> c \in Range(result.res)

\* C23 happens: with Hearts trump, a hand of a spade and the left bower was
\* filtered against a lead of the nine of Hearts and only the bower is
\* playable.
C23_Witness ==
    /\ result.op = "Trick::filter"
    /\ result.trick.trump = "Heart"
    /\ Trick_lead(result.trick)[2] = Card("Nine", "Heart")
    /\ result.hand = << Card("Queen", "Spade"), Card("Jack", "Diamond") >>
    /\ result.res = << Card("Jack", "Diamond") >>

(***************************************************************************)
(* The deal (round.rs, deck.rs): a RoundConfig is made from a dealer and a *)
(* deck, which may be short, long or hold a card twice.                    *)
(***************************************************************************)
IncompleteDeck == [err |-> "IncompleteDeck"]
DuplicateCard == [err |-> "DuplicateCard"]
InvalidHandSize == [err |-> "InvalidHandSize"]

\* The declaration order of the suits and of the ranks, which their derived
\* Ord follows.
SuitOrder == << "Club", "Diamond", "Spade", "Heart" >>
RankOrder == << "Nine", "Ten", "Jack", "Queen", "King", "Ace" >>

\* Deck::take(n): the last n cards leave the deck, or all of them when it
\* holds fewer.
Deck_take(deck, n) ==
    LET idx == IF Len(deck) > n THEN Len(deck) - n ELSE 0
    IN  [deck |-> SubSeq(deck, 1, idx), cards |-> SubSeq(deck, idx + 1, Len(deck))]

\* A variant that checks the sizes of the hands and nothing else.
validate_sizes_only(config) ==
    IF \E seat \in DOMAIN config.hands : Len(config.hands[seat]) # 5
    THEN InvalidHandSize
    ELSE Ok

\* RoundConfig::validate
validate(config) ==
    IF \E seat \in DOMAIN config.hands : Len(config.hands[seat]) # 5
    THEN InvalidHandSize
    ELSE LET seen == {config.top}
                         \cup UNION {Range(config.hands[seat]) : seat \in DOMAIN config.hands}
         IN  IF Cardinality(seen) = 21 THEN Ok ELSE DuplicateCard

\* The sort key (suit, rank) of RoundConfig::canonicalize.
CardKey(card) == Position(SuitOrder, card.suit) * 6 + Position(RankOrder, card.rank)

\* RoundConfig::canonicalize
canonicalize(config) ==
    [config EXCEPT !.hands =
        [seat \in DOMAIN config.hands |->
            SortSeq(config.hands[seat], LAMBDA a, b : CardKey(a) < CardKey(b))]]

\* RoundConfig::new(dealer, deck): the hands are dealt from the seat after
\* the dealer on, five cards each, then the top card is turned.
RoundConfig_new(dealer, deck) ==
    IF Len(deck) < 24
    THEN [config |-> None, res |-> IncompleteDeck]
    ELSE LET s1 == next(dealer)
             s2 == next(s1)
             s3 == next(s2)
             s4 == next(s3)
             t1 == Deck_take(deck, 5)
             t2 == Deck_take(t1.deck, 5)
             t3 == Deck_take(t2.deck, 5)
             t4 == Deck_take(t3.deck, 5)
             t5 == Deck_take(t4.deck, 1)
             hands == [seat \in {s1, s2, s3, s4} |->
                          CASE seat = s1 -> t1.cards
                            [] seat = s2 -> t2.cards
                            [] seat = s3 -> t3.cards
                            [] seat = s4 -> t4.cards]
             config == [dealer |-> dealer, hands |-> hands, top |-> t5.cards[1]]
             res == validate(config)
         IN  IF IsOk(res)
             THEN [config |-> Some(canonicalize(config)), res |-> Ok]
             ELSE [config |-> None, res |-> res]

\* Deck::default: the ranks in turn, each in every suit.
DefaultDeck ==
    [i \in 1..24 |-> Card(RankOrder[((i - 1) \div 4) + 1],
                          << "Club", "Diamond", "Heart", "Spade" >>[((i - 1) % 4) + 1])]

\* The deck cut at a place: a reordering that a shuffle can give.
Cut(deck, k) == SubSeq(deck, k + 1, Len(deck)) \o SubSeq(deck, 1, k)

CutInputs == {0, 1, 7, 12}

\* Pairs <<i, j>>: the card at place i is replaced by a copy of the one at
\* place j.  Places 1 to 3 of a deck of 24 are never dealt.
CopyInputs == {<<1, 1>>, <<1, 2>>, <<2, 24>>, <<24, 4>>, <<5, 10>>, <<14, 15>>}

\* The changes of length: cards dropped from the bottom of the deck, or a
\* copy of a card put on top.
ResizeInputs == {"drop2", "drop1", "keep", "copy_of_bottom", "copy_of_top"}

Resize(deck, how) ==
    CASE how = "drop2" -> SubSeq(deck, 3, Len(deck))
      [] how = "drop1" -> SubSeq(deck, 2, Len(deck))
      [] how = "keep" -> deck
      [] how = "copy_of_bottom" -> Append(deck, deck[1])
      [] how = "copy_of_top" -> Append(deck, deck[Len(deck)])

DeckInputs ==
    {Resize([Cut(DefaultDeck, k) EXCEPT ![p[1]] = Cut(DefaultDeck, k)[p[2]]], how) :
        k \in CutInputs, p \in CopyInputs, how \in ResizeInputs}

\* A deck is at hand.
InitDeal ==
    \E deck \in DeckInputs :
        /\ round = BaseRound_from([dealer |-> "North", hands |-> FixtureHands,
                                   top |-> FixtureTop])
        /\ log = Log_new([dealer |-> "North", hands |-> FixtureHands,
                          top |-> FixtureTop])
        /\ cursor = None
        /\ result = [op |-> "Deck", deck |-> deck]

\* RoundConfig::new(dealer, deck)
NewConfig(dealer) ==
    /\ result.op = "Deck"
    /\ LET ret == RoundConfig_new(dealer, result.deck)
       IN  result' = [op |-> "RoundConfig::new", dealer |-> dealer,
                      deck |-> result.deck, config |-> ret.config, res |-> ret.res]
    /\ UNCHANGED <<round, log, cursor>>

NextDeal == \E dealer \in Seat : NewConfig(dealer)

SpecDeal == InitDeal /\ [][NextDeal]_vars

\* The places of the deck the 21 cards are dealt from: the top of the deck.
DealtPlaces(deck) == (Len(deck) - 20)..Len(deck)

RepeatsDealt(deck) ==
    \E i, j \in DealtPlaces(deck) : i < j /\ deck[i] = deck[j]

\* The cards of a config: the hands and the top card.
CardsOf(config) ==
    {config.top} \cup UNION {Range(config.hands[seat]) : seat \in DOMAIN config.hands}

\* C24: RoundConfig::new fails with IncompleteDeck on a deck of fewer than 24
\* cards, fails with DuplicateCard on a deck of at least 24 cards whose 21
\* dealt cards repeat a card, and otherwise succeeds with four hands of five
\* cards and a top card, 21 distinct cards in all; no hand is cut short.
C24_ConfigConstruction ==
    result.op = "RoundConfig::new" =>
        LET deck == result.deck
        IN  IF Len(deck) < 24 THEN result.res = IncompleteDeck
            ELSE IF RepeatsDealt(deck) THEN result.res = DuplicateCard
            ELSE /\ result.res = Ok
                 /\ IsSome(result.config)
                 /\ LET config == Unwrap(result.config)
                    IN  /\ DOMAIN config.hands = Seat
                        /\ \A seat \in Seat : Len(config.hands[seat]) = 5
                        /\ Cardinality(CardsOf(config)) = 21
                        /\ CardsOf(config) = {deck[i] : i \in DealtPlaces(deck)}

\* C24 happens: a deck of 24 cards that repeats a dealt card was refused as
\* DuplicateCard.
C24_Witness ==
    /\ result.op = "RoundConfig::new"
    /\ Len(result.deck) = 24
    /\ RepeatsDealt(result.deck)
    /\ result.res = DuplicateCard

(***************************************************************************)
(* The preorder traversal of the log (log.rs, Traverse).                   *)
(***************************************************************************)
\* Traverse::new: the queue starts as the list of the root-level nodes, as
\* the log holds it.
Traverse_new(l) == [queue |-> ChildrenOf(l, None)]

\* Iterator::next of Traverse on a queue that is not empty: the node at the
\* front is yielded and its children take its place, by ascending id.
\* A variant that takes the sibling listed last for the last sibling.
Traverse_next_last_listed(l, queue) ==
    LET id == Head(queue)
    IN  IF id \notin DOMAIN l.actions \/ l.actions[id].parent \notin DOMAIN l.children
        THEN [queue |-> Tail(queue), node |-> None, res |-> Panic("consistency")]
        ELSE LET action == l.actions[id]
                 siblings == l.children[action.parent]
                 is_max == siblings[Len(siblings)] = id
                 has_children == Some(id) \in DOMAIN l.children
                 children == IF has_children THEN l.children[Some(id)] ELSE << >>
             IN  [queue |-> SortSeq(children, LAMBDA a, b : a < b) \o Tail(queue),
                  node |-> Some([id |-> id,
                                 action |-> action.action,
                                 parent |-> action.parent,
                                 sibling |-> Len(siblings) > 1,
                                 last_sibling |-> Len(siblings) > 1 /\ is_max,
                                 leaf |-> ~has_children]),
                  res |-> Ok]

Traverse_next(l, queue) ==
    LET id == Head(queue)
    IN  IF id \notin DOMAIN l.actions \/ l.actions[id].parent \notin DOMAIN l.children
        THEN [queue |-> Tail(queue), node |-> None, res |-> Panic("consistency")]
        ELSE LET action == l.actions[id]
                 siblings == l.children[action.parent]
                 is_max == \A k \in 1..Len(siblings) : siblings[k] <= id
                 has_children == Some(id) \in DOMAIN l.children
                 children == IF has_children THEN l.children[Some(id)] ELSE << >>
             IN  [queue |-> SortSeq(children, LAMBDA a, b : a < b) \o Tail(queue),
                  node |-> Some([id |-> id,
                                 action |-> action.action,
                                 parent |-> action.parent,
                                 sibling |-> Len(siblings) > 1,
                                 last_sibling |-> Len(siblings) > 1 /\ is_max,
                                 leaf |-> ~has_children]),
                  res |-> Ok]

\* log.traverse().collect(): the iterator is run until its queue is empty.
RECURSIVE Traverse_collect(_, _, _)
Traverse_collect(l, queue, nodes) ==
    IF queue = << >> THEN [nodes |-> nodes, res |-> Ok]
    ELSE LET step == Traverse_next(l, queue)
         IN  IF ~IsOk(step.res) THEN [nodes |-> nodes, res |-> step.res]
             ELSE Traverse_collect(l, step.queue, Append(nodes, Unwrap(step.node)))

traverse(l) == Traverse_collect(l, Traverse_new(l).queue, << >>)

(***************************************************************************)
(* A round loaded from a file (Tui::from_round_file): the file holds a     *)
(* RawLog that the program did not have to write itself, so its nodes come *)
(* in any order and its config is whatever the file says.                  *)
(***************************************************************************)
\* The nodes of the file: two openings of East, and two answers of South to
\* the first of them.
LoadedNodes ==
    << ActionNode(0, None, Action("East", "BidTop", Pass)),
       ActionNode(1, Some(0), Action("South", "BidTop", Pass)),
       ActionNode(2, None, Action("East", "BidTop", Call("Diamond", FALSE))),
       ActionNode(3, Some(0), Action("South", "BidTop", Call("Diamond", TRUE))) >>

\* How many of the nodes the file holds: all of them, or the first two when
\* it was written before the others were played.
LoadedCountInputs == {2, Len(LoadedNodes)}

\* The orders in which the file lists the nodes it holds.
NodeOrderInputs ==
    UNION {{p \in [1..n -> 1..n] : \A i, j \in DOMAIN p : p[i] = p[j] => i = j} :
           n \in LoadedCountInputs}

\* The configs of the file: the deal of the fixture, the same with North's
\* first card replaced by a copy of East's, and the same with North's first
\* card missing.
LoadedConfigInputs ==
    {[dealer |-> "North", hands |-> FixtureHands, top |-> FixtureTop],
     [dealer |-> "North",
      hands |-> [FixtureHands EXCEPT !.North[1] = FixtureHands.East[1]],
      top |-> FixtureTop],
     [dealer |-> "North",
      hands |-> [FixtureHands EXCEPT !.North = Tail(FixtureHands.North)],
      top |-> FixtureTop]}

RawLogInputs ==
    {[config |-> config, actions |-> [i \in DOMAIN p |-> LoadedNodes[p[i]]]] :
        config \in LoadedConfigInputs, p \in NodeOrderInputs}

\* Tui::from_round_file: the RawLog read from the file becomes a Log and the
\* Log a LoggingRound.
from_round_file(raw) == LRet(LoggingRound_from_log(Log_from(raw)), Ok)

InitLoad ==
    \E raw \in RawLogInputs :
        LET ret == from_round_file(raw)
        IN  /\ round = ret.self.round
            /\ log = ret.self.log
            /\ cursor = ret.self.cursor
            /\ result = [op |-> "load", raw |-> raw, res |-> ret.res]

\* The history browser lists the log.
LoadTraverse ==
    /\ result' = [op |-> "traverse", nodes |-> traverse(log).nodes,
                  res |-> traverse(log).res]
    /\ UNCHANGED <<round, log, cursor>>

LoadSeek(id) == Seek(id)

LoadTakeAction(data) == TakeAction(data)

LoadPopEvent == PopEvent

NextLoad ==
    \/ LoadTraverse
    \/ \E id \in SeekInputs : LoadSeek(id)
    \/ \E data \in LogDataInputs : LoadTakeAction(data)
    \/ LoadPopEvent

SpecLoad == InitLoad /\ [][NextLoad]_vars

\* C25: loading re-validates the config of the file: a config that repeats
\* a card or has a hand of a size other than 5 is refused with an error, and
\* no round comes of it.
C25_LoadRevalidates ==
    (result.op = "load" /\ ~IsOk(validate(result.raw.config))) => ~IsOk(result.res)

\* C28: the preorder traversal of a well-formed log yields every node once,
\* a parent before its descendants, and siblings, the root-level nodes too,
\* by ascending id; also when the log was rebuilt from a list of nodes in any
\* order.
C28_PreorderTraversal ==
    result.op = "traverse" =>
        LET out == [i \in DOMAIN result.nodes |-> result.nodes[i].id]
        IN  /\ IsOk(result.res)
            /\ Len(out) = Cardinality(Ids)
            /\ Range(out) = Ids
            /\ \A i \in DOMAIN out :
                   \/ log.actions[out[i]].parent = None
                   \/ \E j \in 1..(i - 1) : Some(out[j]) = log.actions[out[i]].parent
            /\ \A i, j \in DOMAIN out :
                   (i < j /\ log.actions[out[i]].parent = log.actions[out[j]].parent)
                       => out[i] < out[j]

\* C26: restart() from any state sets the cursor to none and the round to a
\* fresh round of the config of the log: the hands as dealt, no contract, no
\* tricks, BidTop expected from the seat after the dealer; seek(None) does
\* the same; neither restart nor any seek changes the log.
C26_RestartIsFresh ==
    [][/\ (result'.op = "restart" \/ (result'.op = "seek" /\ result'.id = None)) =>
            /\ IsOk(result'.res)
            /\ cursor' = None
            /\ round'.dealer = log.config.dealer
            /\ round'.top = log.config.top
            /\ round'.hands = log.config.hands
            /\ round'.contract = None
            /\ round'.tricks.tricks = << >>
            /\ round'.next_action
                   = Some(ExpectAction(next(log.config.dealer), "BidTop"))
            /\ round' = BaseRound_from(log.config)
       /\ result'.op \in {"restart", "seek"} => log' = log]_vars

\* C26 happens: restart was called with nodes in the log, after which the
\* round is fresh and at the root.
C26_Witness ==
    /\ result.op = "restart"
    /\ Cardinality(Ids) >= 2
    /\ cursor = None
    /\ round.contract = None
    /\ round.hands = log.config.hands

\* C27: the log is append-only: whatever is called, apply_action with its
\* insert, seek or restart, every node that exists still exists afterwards
\* with the same id, parent and action, and the config of the log never
\* changes.
C27_AppendOnly ==
    [][/\ log'.config = log.config
       /\ \A id \in DOMAIN log.actions :
              /\ id \in DOMAIN log'.actions
              /\ log'.actions[id] = log.actions[id]
              /\ log'.actions[id].id = id]_vars

\* C27 happens: a node was appended to a log that held a branch already, the
\* cursor having been moved back by a seek before.
C27_Witness ==
    /\ result.op = "apply_action"
    /\ IsOk(result.res)
    /\ HasBranch
    /\ cursor = Some(log.next_id - 1)
    /\ log.next_id >= 3

\* The events a round has given rise to so far, in the order the claim
\* gives: the Deal, the Call once there is a contract, a Trick for every
\* trick that is full, in the order of the tricks, and the Round once no
\* action is expected any more.
EventLog(r) ==
    LET full == SelectSeq(r.tricks.tricks,
                          LAMBDA t : Trick_len(t) = r.tricks.trick_size)
    IN  << [type |-> "Deal", dealer |-> r.dealer, top |-> r.top] >>
        \o (IF IsSome(r.contract)
            THEN << [type |-> "Call", contract |-> Unwrap(r.contract)] >>
            ELSE << >>)
        \o [i \in DOMAIN full |-> [type |-> "Trick", trick |-> full[i]]]
        \o (IF r.next_action = None
            THEN << [type |-> "Round", outcome |-> Unwrap(outcome(r))] >>
            ELSE << >>)

IsTail(s, t) ==
    \E k \in 0..Len(t) : s = SubSeq(t, k + 1, Len(t))

\* C29: the events come in the order Deal, Call, one Trick per completed
\* trick in the order of completion, Round: the queue always holds the
\* events not yet popped, the last of that order; an accepted action appends
\* the events it gives rise to, the Round event in the very step that
\* leaves no action expected; and a pop takes the oldest event and changes
\* nothing of the hands, the contract, the tricks and next_action.
C29_EventOrder ==
    /\ [](/\ IsTail(round.events, EventLog(round))
          /\ (round.next_action = None /\ round.events # << >>)
                 => round.events[Len(round.events)].type = "Round")
    /\ [][/\ result'.op = "pop_event" =>
                 /\ Observed(round') = Observed(round)
                 /\ round.events # << >> =>
                        /\ result'.event = Some(Head(round.events))
                        /\ round'.events = Tail(round.events)
          /\ result'.op = "apply_action" =>
                 /\ round'.events =
                        round.events \o SubSeq(EventLog(round'),
                                               Len(EventLog(round)) + 1,
                                               Len(EventLog(round')))
                 /\ SubSeq(EventLog(round'), 1, Len(EventLog(round)))
                        = EventLog(round)
                 /\ (IsSome(round.next_action) /\ round'.next_action = None) =>
                        /\ Len(round'.events) >= 2
                        /\ round'.events[Len(round'.events)].type = "Round"
                        /\ round'.events[Len(round'.events) - 1].type = "Trick"]_vars

\* C29 happens: a round was played through all five tricks and the Round
\* event, the last one, has been popped.
C29_Witness ==
    /\ result.op = "pop_event"
    /\ result.event # None
    /\ Unwrap(result.event).type = "Round"
    /\ round.events = << >>
    /\ round.next_action = None
    /\ Len(EventLog(round)) = 8

\* The phase of a round: the kind of the action it expects, or Terminal.
Phase(r) ==
    IF r.next_action = None THEN "Terminal" ELSE Unwrap(r.next_action).action

\* The changes of phase the order of the claim allows.
PhaseOrder ==
    {<<"BidTop", "BidTop">>, <<"BidTop", "BidOther">>, <<"BidTop", "DealerDiscard">>,
     <<"BidTop", "Lead">>, <<"BidOther", "BidOther">>, <<"BidOther", "Lead">>,
     <<"DealerDiscard", "Lead">>, <<"Lead", "Follow">>, <<"Follow", "Follow">>,
     <<"Follow", "Lead">>, <<"Follow", "Terminal">>}

\* The number of seats a bid of the phase has been expected from, the seat
\* it is expected from now included: the bids go round from the seat after
\* the dealer.
BidsExpected(r) ==
    LET seat == Unwrap(r.next_action).seat
    IN  CHOOSE n \in 1..4 : Clockwise(r.dealer, n) = seat

\* C30: the expected action goes through BidTop (1 to 4 times), then
\* BidOther (1 to 4 times) or at most one DealerDiscard, then Leads each
\* followed by Follows, then nothing; DealerDiscard is expected only right
\* after an accepted BidTop Call, never after BidOther; once a Lead has been
\* expected no bid or discard is expected again; and the state in which
\* nothing is expected is never left.
C30_PhaseOrder ==
    [][LET p == Phase(round)
           q == Phase(round')
       IN  round'.next_action # round.next_action =>
               /\ <<p, q>> \in PhaseOrder
               /\ p # "Terminal"
               /\ (p \in {"BidTop", "BidOther"} /\ q = p) =>
                      /\ Unwrap(round.next_action).seat # round.dealer
                      /\ BidsExpected(round') = BidsExpected(round) + 1
               /\ (p = "BidTop" /\ q = "BidOther") =>
                      /\ Unwrap(round.next_action).seat = round.dealer
                      /\ BidsExpected(round') = 1
               /\ q = "DealerDiscard" =>
                      /\ p = "BidTop"
                      /\ result'.op = "apply_action"
                      /\ IsOk(result'.res)
                      /\ result'.action.action = "BidTop"
                      /\ result'.action.data.type = "Call"
               /\ (p = "Follow" /\ q = "Follow") =>
                      Unwrap(round'.next_action).seat # Unwrap(round.next_action).seat]_vars

\* C30 happens: a round went through four BidTop and two BidOther phases
\* into the play of tricks and on to the state in which nothing is expected.
C30_Witness ==
    LET played == Played
    IN  /\ round.next_action = None
        /\ Len(played) >= 6
        /\ \A i \in 1..4 : played[i].action = "BidTop"
        /\ \A i \in 5..6 : played[i].action = "BidOther"

\* The cards played into the tricks of a round so far.
CardsPlayed(r) ==
    UNION {{r.tricks.tricks[i].cards[k][2] : k \in DOMAIN r.tricks.tricks[i].cards} :
              i \in DOMAIN r.tricks.tricks}

\* A seat other than the dealer ordered the top card up alone: the contract
\* is alone, of the suit of the top card, and not the dealer's.
OrderedUpAloneByOther(r) ==
    /\ IsSome(r.contract)
    /\ Unwrap(r.contract).alone
    /\ Unwrap(r.contract).suit = r.top.suit
    /\ Unwrap(r.contract).maker # r.dealer

\* C31: when a seat other than the dealer orders the top card up alone, the
\* top card stays buried in the hand of the dealer: it is played into no
\* trick of the round.
C31_TopStaysBuried ==
    OrderedUpAloneByOther(round) => round.top \notin CardsPlayed(round)

\* The seats that take part in the play of the tricks.
PlayingSeats(r) == IF IsAlone(r) THEN Seat \ {Partner(r)} ELSE Seat

\* C32: whenever a Lead is expected, every seat that takes part in the play
\* holds 5 cards less the number of completed tricks.
C32_HandSizes ==
    (IsSome(round.next_action) /\ Unwrap(round.next_action).action = "Lead") =>
        \A seat \in PlayingSeats(round) :
            Len(round.hands[seat]) = 5 - Len(round.tricks.tricks)

\* The cards of the four hands one after the other, then the cards played
\* into the tricks, in the order of play.
RECURSIVE Flatten(_)
Flatten(seqs) == IF seqs = << >> THEN << >> ELSE Head(seqs) \o Flatten(Tail(seqs))

CardsInRound(r) ==
    r.hands["North"] \o r.hands["East"] \o r.hands["South"] \o r.hands["West"]
    \o Flatten([i \in DOMAIN r.tricks.tricks |->
                   [k \in DOMAIN r.tricks.tricks[i].cards |->
                       r.tricks.tricks[i].cards[k][2]]])

\* C33: in every state of a round made from a valid config the cards of the
\* four hands and the cards played into tricks are pairwise distinct and
\* are among the 21 cards dealt; an accepted Lead or Follow moves exactly
\* one card from the hand of the acting seat into the current trick and
\* changes no other hand, so that no card is played twice.
C33_CardConservation ==
    /\ [](LET cards == CardsInRound(round)
          IN  /\ IsOk(validate(log.config))
              /\ Cardinality(Range(cards)) = Len(cards)
              /\ Range(cards) \subseteq CardsOf(log.config))
    /\ [][(Accepted("Lead") \/ Accepted("Follow")) =>
             LET seat == result'.action.seat
                 card == result'.action.data.card
                 n == Len(round'.tricks.tricks)
                 trick == round'.tricks.tricks[n]
             IN  /\ card \in Range(round.hands[seat])
                 /\ card \notin CardsPlayed(round)
                 /\ Len(round'.hands[seat]) = Len(round.hands[seat]) - 1
                 /\ Range(round'.hands[seat]) = Range(round.hands[seat]) \ {card}
                 /\ \A s \in Seat \ {seat} : round'.hands[s] = round.hands[s]
                 /\ trick.cards[Len(trick.cards)] = <<seat, card>>
                 /\ Len(CardsInRound(round')) = Len(CardsInRound(round))
                 /\ CardsPlayed(round') = CardsPlayed(round) \cup {card}]_vars

\* C33 happens: all five tricks of a partnered round have been played, the
\* twenty cards of the hands are in the tricks and the hands are empty.
C33_Witness ==
    /\ round.next_action = None
    /\ ~IsAlone(round)
    /\ Cardinality(CardsPlayed(round)) = 20
    /\ \A seat \in Seat : round.hands[seat] = << >>

\* C34: next_action is empty exactly when outcome() is present: a round has
\* a resolved outcome exactly when no further action is expected.
C34_OverIffOutcome ==
    (round.next_action = None) <=> IsSome(outcome(round))

\* C34 happens: a round has ended by a euchre before the fifth trick, with
\* its outcome present and no action expected.
C34_Witness ==
    /\ round.next_action = None
    /\ IsSome(outcome(round))
    /\ Unwrap(outcome(round)).team = Defenders(round)
    /\ Len(round.tricks.tricks) < 5

\* The round accepts the payload for the action it expects.
Accepts(r, data) ==
    IsOk(apply_action(r, with_data(Unwrap(r.next_action), data)).res)

\* C35: in every state of a round made from a valid config in which an
\* action is expected, the expected seat has an action of the expected kind
\* that apply_action accepts: a Pass or a Call while bidding, and a card it
\* holds for DealerDiscard, Lead and Follow, its hand never being empty.
C35_NoDeadlock ==
    IsSome(round.next_action) =>
        LET expect == Unwrap(round.next_action)
        IN  IF expect.action \in {"BidTop", "BidOther"}
            THEN \/ Accepts(round, Pass)
                 \/ \E suit \in Suit, alone \in BOOLEAN : Accepts(round, Call(suit, alone))
            ELSE /\ round.hands[expect.seat] # << >>
                 /\ \E card \in Range(round.hands[expect.seat]) :
                        Accepts(round, CardData(card))

\* C35 happens: a seat that has to follow holds a card it may not play and
\* a card it may; and before that the dealer, who may not pass the second
\* time round, had a call to make.
C35_Witness ==
    /\ IsSome(round.next_action)
    /\ Unwrap(round.next_action).action = "Follow"
    /\ \E card \in Range(round.hands[Unwrap(round.next_action).seat]) :
           ~Accepts(round, CardData(card))
    /\ \E card \in Range(round.hands[Unwrap(round.next_action).seat]) :
           Accepts(round, CardData(card))
    /\ Len(Played) >= 8
    /\ Played[8].action = "BidOther"
    /\ Played[8].seat = round.dealer

(***************************************************************************)
(* A round at the table on which accepted actions keep being applied: the  *)
(* seat that is expected makes a choice the round accepts, for as long as  *)
(* an action is expected.                                                  *)
(***************************************************************************)
\* The payloads of a seat that plays by the rules: the bids of the table,
\* the first or the last card of the hand for a discard or a lead, and on a
\* Follow the first of the cards that Trick::filter leaves.
PlayableInputs(r, expect) ==
    IF expect.action = "Follow"
    THEN {CardData(Head(Trick_filter(LastTrick(r), r.hands[expect.seat])))}
    ELSE TableDataInputs(r, expect)

TableAccept ==
    /\ round.events = << >>
    /\ IsSome(round.next_action)
    /\ \E data \in PlayableInputs(round, Unwrap(round.next_action)) :
           /\ Accepts(round, data)
           /\ Applied(with_data(Unwrap(round.next_action), data))

NextAccepted ==
    \/ TableDrain
    \/ TableAccept

\* The enabling condition of TableAccept as a state predicate: the table
\* waits for an action and one of the offered payloads is accepted (the step
\* itself always changes the round).
CanAccept ==
    /\ round.events = << >>
    /\ IsSome(round.next_action)
    /\ \E data \in PlayableInputs(round, Unwrap(round.next_action)) :
           Accepts(round, data)

\* The event loop keeps running: pending events are always drained, and a
\* player who can act eventually does.  The second condition is weak fairness
\* of TableAccept, written out with its enabling condition CanAccept.
SpecAccepted ==
    /\ InitTable
    /\ [][NextAccepted]_vars
    /\ WF_vars(TableDrain)
    /\ ([]<>~CanAccept \/ []<><<TableAccept>>_vars)

\* The number of the actions of the kinds among the accepted ones.
CountOf(played, kinds) ==
    Cardinality({i \in DOMAIN played : played[i].action \in kinds})

\* C36: a fresh round accepts at most 28 actions, at most 8 bids, 1 dealer
\* discard and 20 plays of a card in at most 5 tricks, and a run that keeps
\* applying accepted actions reaches the state in which none is expected.
C36_RoundTerminates ==
    /\ [](LET played == Played
          IN  /\ Len(played) <= 28
              /\ CountOf(played, {"BidTop", "BidOther"}) <= 8
              /\ CountOf(played, {"DealerDiscard"}) <= 1
              /\ CountOf(played, {"Lead", "Follow"}) <= 20
              /\ CountOf(played, {"Lead"}) <= 5
              /\ CountOf(played, {"Lead"}) = Len(round.tricks.tricks))
    /\ <>(round.next_action = None)

\* C36 happens: a round has ended after 28 accepted actions, 8 bids among
\* them and 20 plays.
C36_Witness ==
    /\ round.next_action = None
    /\ Len(Played) = 28
    /\ CountOf(Played, {"BidTop", "BidOther"}) = 8

(***************************************************************************)
(* Internal assertions: Tricks::push asserts fewer than five tricks,        *)
(* follow asserts that the current trick is not full, dealer_discard that   *)
(* the seat is the dealer, lead and follow expect a contract and follow a   *)
(* started trick.  A fired assertion is the result Panic.                   *)
(***************************************************************************)

\* The payloads a caller may pass: a pass, any call, any card.
AnyData ==
    {Pass} \cup {Call(s, al) : s \in Suit, al \in BOOLEAN}
           \cup {CardData(c) : c \in AllCards}

IsPanic(res) == res.err = "Panic"

\* C37: for a round made from a valid config no assertion fires: the call
\* that led to the current state did not panic, and no apply_action call
\* made in the current state, whatever its seat, kind and payload and
\* whether it is accepted or rejected, panics.
C37_NoAssertionFires ==
    /\ ~IsPanic(result.res)
    /\ \A seat \in Seat, kind \in ActionType, data \in AnyData :
           ~IsPanic(apply_action(round, Action(seat, kind, data)).res)

\* A finished round of five tricks in which further plays are attempted and
\* turned away before Tricks::push is reached.
C37_Witness ==
    /\ round.next_action = None
    /\ Len(round.tricks.tricks) = 5
    /\ \A seat \in Seat, data \in AnyData :
           apply_action(round, Action(seat, "Lead", data)).res = RoundOver

(***************************************************************************)
(* Shape of the log.                                                       *)
(***************************************************************************)

\* How often id is listed among the children of parent.
TimesListed(l, parent, id) ==
    IF parent \in DOMAIN l.children
    THEN Cardinality({k \in DOMAIN l.children[parent] : l.children[parent][k] = id})
    ELSE 0

\* C38: in a log built by insert, and in such a log after it was saved and
\* loaded again, every node's parent is absent or an existing node with a
\* strictly smaller id, every id is listed exactly once among the children of
\* its parent and nowhere else, and next_id is larger than every id.
C38_LogWellFormed ==
    \A id \in DOMAIN log.actions :
        LET node == log.actions[id]
        IN  /\ node.id = id
            /\ \/ node.parent = None
               \/ /\ Unwrap(node.parent) \in DOMAIN log.actions
                  /\ Unwrap(node.parent) < id
            /\ TimesListed(log, node.parent, id) = 1
            /\ \A parent \in DOMAIN log.children :
                   parent # node.parent => TimesListed(log, parent, id) = 0
            /\ \A parent \in DOMAIN log.children :
                   \A k \in DOMAIN log.children[parent] :
                       log.children[parent][k] \in DOMAIN log.actions
            /\ log.next_id > id

\* A branching log of at least three nodes that was saved and loaded again.
C38_Witness ==
    /\ result.op = "load"
    /\ Cardinality(DOMAIN log.actions) >= 3
    /\ HasBranch
    /\ \E id \in DOMAIN log.actions : IsSome(log.actions[id].parent)

(***************************************************************************)
(* Seeking to an id the log does not have.                                 *)
(***************************************************************************)

\* The step is a seek call to an id that is not a node of the log.
SeeksUnknownId ==
    /\ result'.op = "seek"
    /\ IsSome(result'.id)
    /\ Unwrap(result'.id) \notin DOMAIN log.actions

\* C39: a seek to an id that is not in the log returns InvalidLogId for that
\* id and leaves the cursor at none, the round restarted (the state of a
\* fresh round of the log's config) and the log unchanged; the position held
\* before the call is not restored.
C39_FailedSeek ==
    [][SeeksUnknownId =>
          /\ result'.res = InvalidLogId(Unwrap(result'.id))
          /\ cursor' = None
          /\ round' = BaseRound_from(log.config)
          /\ log' = log]_vars

\* A seek has failed on a log that holds nodes: the round that had played
\* them is back at its start.
C39_Witness ==
    /\ result.op = "seek"
    /\ result.res.err = "InvalidLogId"
    /\ DOMAIN log.actions # {}
    /\ cursor = None
    /\ round = BaseRound_from(log.config)

(***************************************************************************)
(* Metadata of the traversal.                                              *)
(***************************************************************************)

\* The nodes that share the parent (or the implicit root) of node id.
SiblingsOf(id) == {peer \in Ids : log.actions[peer].parent = log.actions[id].parent}

HasChildren(id) == \E peer \in Ids : log.actions[peer].parent = Some(id)

====
